---- MODULE Spec2Model ----
(***************************************************************************)
(* Verification model of javacli: extraction of Spring HTTP endpoints      *)
(* from Java sources (regex engines, AST engine, dispatchers) and the      *)
(* SQLite index that caches the result.                                    *)
(*                                                                         *)
(* Strings that the code inspects character by character (URL path         *)
(* fragments) are sequences of one-character strings; names that the code  *)
(* only copies (class names, method names, verbs) are TLA+ strings.        *)
(***************************************************************************)
EXTENDS Integers, Sequences, FiniteSets, TLC

VARIABLES
    \* ---- path composition (pure functions applied to drawn inputs)
    basePath,       \* class-level fragment handed to the routine
    methodPath,     \* method-level fragment handed to the routine
    fullPaths,      \* routine name -> composed path, once composed
    pathPc,         \* "input" | "done"
    \* ---- extraction engines run on one Java file
    lines,          \* the file: content.split('\n'), one record per line
    engine,         \* the engine now running on the file
    i,              \* 1-based index of the line the regex loop is at
    currentClass,   \* regex scan state
    classBasePath,  \* regex scan state
    isController,   \* regex scan state
    endpoints,      \* endpoints the running engine has emitted so far
    results,        \* engine -> what it returned for the file
    \* ---- a run of a dispatcher over the scanned files
    javaFiles,      \* the scanned files, in scan order
    dispatcher,     \* the dispatcher the run goes through
    maxWorkers,     \* AsyncAnalyzer.maxWorkers
    runStatus,      \* "idle" | "start" | "running" | "returned" | "raised"
    position,       \* number of files the dispatcher's loop has passed
    allEndpoints,   \* endpoints accumulated by the run
    controllerTally, \* controllerCount of the run
    strategy,       \* file index -> "todo" | "ast" | "regex" | "skipped"
    resultsCache,   \* OptimizedAnalyzer.resultsCache: file index -> entry
    analysisTasks,  \* analysis_tasks rows: task id -> status
    asyncEndpoints, \* async_endpoints rows
    \* ---- the project on disk, its index and the runs of the TUI
    fsEntries,      \* file id -> the .java entry at that path, or Absent
    indexDb,        \* .javacli/index.db: NoIndex or [metadata, endpoints]
    fsAtSave,       \* fsEntries as it was when the index was last saved
    tuiEndpoints,   \* TUI.endpoints of the last launch
    tuiInfo,        \* how the last launch got its list
    analysed,       \* the list the last analysing launch produced
    endpointList,   \* the list handed to saveIndex by a direct caller
    loadedList,     \* what loadIndex returned to that caller
    \* ---- one saveIndex call, statement by statement
    saveCaller,     \* the caller of saveIndex
    saveList,       \* the endpoints it hands over
    savePc,         \* the statement saveIndex is at
    saveAt,         \* number of endpoint rows inserted so far
    prevDb,         \* the index as it was when the call began
    saveFailed,     \* a statement of the call has failed
    \* ---- fingerprints and validity checks of the project
    scanOrders,     \* two orders in which the scan returned the files
    hashes,         \* the fingerprint computed over each
    validity,       \* the outcome of the last isIndexValid call
    \* ---- force rescans
    forced,         \* the last force rescan: how it was asked for and ended
    \* ---- reading the cache
    cacheReadFailed, \* a read of a valid index failed under the TUI
    \* ---- the task queue of the queued analyzers
    qAnalyzer,      \* the analyzer that runs: AsyncAnalyzer or OptimizedAnalyzer
    qFiles,         \* the scanned files; the file at position p has path p
    qLimit,         \* the LIMIT of getPendingTasks
    qEarlier,       \* the task rows the database held when the run started
    qPc,            \* the position of the run
    qTasks,         \* analysis_tasks rows in id order: path and status
    qRows,          \* endpoint rows, one group per saveAnalysisResult call
    qTaskPc,        \* the position of each task callback of the batch
    qResult,        \* the endpoints the run returns
    qPicks,         \* how many times each task was handed to a callback
    \* ---- the TUI and its background analyses
    started,        \* TUI.start has run
    isDetailMode,   \* TUI.isDetailMode
    liveRuns,       \* the performBackgroundAnalysis calls in flight, oldest first
    \* ---- failing status updates in the task queue
    qFault,         \* the task whose status update failed, and whether the run threw
    \* ---- the two analysis modes over one file list
    cmpFiles,       \* the scanned files handed to both modes
    cmpOptimized,   \* what OptimizedAnalyzer.analyzeEndpoints returned
    cmpAsync,       \* what AsyncAnalyzer.analyzeEndpointsAsync returned
    cmpSimple,      \* what SimpleUI.scanProject returned or threw
    \* ---- a run over files whose parser subprocess may never exit
    hangDispatcher, \* the dispatcher that spawns the subprocess
    hangFiles,      \* file index -> whether the subprocess hangs on it
    hangAt,         \* the file the loop is at
    hangPc,         \* "spawn" | "waiting" | "regex" | "returned"
    hangClock,      \* ticks the running subprocess has been waited for
    hangUsed,       \* file index -> "todo" | "ast" | "regex"
    \* ---- the start-up of the simple and of the native UI
    uiLaunch,       \* the UI last started, how it got its list, and the list
    \* ---- the module label of one file in each analysis mode
    modInfo,        \* what detectModules returned, or NoModuleInfo
    modFile,        \* the path of the file being labelled
    modLabels,      \* analysis mode -> the label it gave, or NotLabelled
    \* ---- a background analysis between its analysis and its save
    bgAnalysis,     \* what performBackgroundAnalysis holds while it awaits
    \* ---- a call of parseParameters
    paramCall       \* the parser, the parameters of the list, the names returned

pathVars == <<basePath, methodPath, fullPaths, pathPc>>
scanVars == <<lines, engine, i, currentClass, classBasePath, isController,
              endpoints, results>>

runVars == <<javaFiles, dispatcher, maxWorkers, runStatus, position,
             allEndpoints, controllerTally, strategy, resultsCache,
             analysisTasks, asyncEndpoints>>

indexVars == <<fsEntries, indexDb, fsAtSave, tuiEndpoints, tuiInfo, analysed,
               endpointList, loadedList>>

saveVars == <<saveCaller, saveList, savePc, saveAt, prevDb, saveFailed>>

hashVars == <<scanOrders, hashes, validity>>

\* the parts below the index
\* the parts below the force rescans
queueVars == <<qAnalyzer, qFiles, qLimit, qEarlier, qPc, qTasks, qRows, qTaskPc, qResult, qPicks>>

liveVars == <<started, isDetailMode, liveRuns>>

\* the parts below the TUI
compareVars == <<cmpFiles, cmpOptimized, cmpAsync, cmpSimple>>

hangVars == <<hangDispatcher, hangFiles, hangAt, hangPc, hangClock, hangUsed>>

moduleVars == <<modInfo, modFile, modLabels>>

moreVars == <<qFault, compareVars, hangVars, uiLaunch, moduleVars, bgAnalysis, paramCall>>

\* everything but the variables of one of the later parts
notFaultVars == <<compareVars, hangVars, uiLaunch, moduleVars, bgAnalysis, paramCall>>
notCompareVars == <<queueVars, qFault, hangVars, uiLaunch, moduleVars, bgAnalysis, paramCall>>
notHangVars == <<queueVars, qFault, compareVars, uiLaunch, moduleVars, bgAnalysis, paramCall>>
notLaunchVars == <<queueVars, qFault, compareVars, hangVars, moduleVars, bgAnalysis, paramCall>>
notModuleVars == <<queueVars, qFault, compareVars, hangVars, uiLaunch, bgAnalysis, paramCall>>
notBackgroundVars == <<queueVars, qFault, compareVars, hangVars, uiLaunch, moduleVars, paramCall>>
notParamVars == <<queueVars, qFault, compareVars, hangVars, uiLaunch, moduleVars, bgAnalysis>>

tailVars == <<cacheReadFailed, queueVars, liveVars, moreVars>>

laterVars == <<saveVars, hashVars, forced, tailVars>>

vars == <<basePath, methodPath, fullPaths, pathPc,
          lines, engine, i, currentClass, classBasePath, isController,
          endpoints, results,
          javaFiles, dispatcher, maxWorkers, runStatus, position,
          allEndpoints, controllerTally, strategy, resultsCache,
          analysisTasks, asyncEndpoints,
          fsEntries, indexDb, fsAtSave, tuiEndpoints, tuiInfo, analysed,
          endpointList, loadedList,
          saveCaller, saveList, savePc, saveAt, prevDb, saveFailed,
          scanOrders, hashes, validity,
          forced,
          cacheReadFailed,
          qAnalyzer, qFiles, qLimit, qEarlier, qPc, qTasks, qRows, qTaskPc, qResult, qPicks,
          started, isDetailMode, liveRuns,
          qFault,
          cmpFiles, cmpOptimized, cmpAsync, cmpSimple,
          hangDispatcher, hangFiles, hangAt, hangPc, hangClock, hangUsed,
          uiLaunch,
          modInfo, modFile, modLabels,
          bgAnalysis,
          paramCall>>

\* what the actions of one part leave alone
notPathVars == <<scanVars, runVars, indexVars, laterVars>>
notScanVars == <<pathVars, runVars, indexVars, laterVars>>
notRunVars == <<pathVars, scanVars, indexVars, laterVars>>
notIndexVars == <<pathVars, scanVars, runVars, laterVars>>

(***************************************************************************)
(* Bounds                                                                  *)
(***************************************************************************)
MaxFragLen == 2
MaxLines == 3
MaxMappings == 2
MaxFiles == 3
MaxProjectFiles == 2
MaxTime == 2
MaxEndpoints == 2
MaxQueueFiles == 5
MaxLiveRuns == 3
MaxHangFiles == 4
MaxWait == 3
MaxModules == 2
MaxAfterMapping == 3
MaxBodyParts == 3
MaxParams == 3
MaxDrainFiles == 9
MaxCpus == 9

(***************************************************************************)
(* Character-sequence helpers (JavaScript / Java string primitives)        *)
(***************************************************************************)
Slash == <<"/">>

\* String.prototype.startsWith('/')
startsWithSlash(p) == Len(p) > 0 /\ p[1] = "/"

\* String.prototype.endsWith('/')
endsWithSlash(p) == Len(p) > 0 /\ p[Len(p)] = "/"

\* p.replace(/^\//, '')
stripLeadingSlash(p) == IF startsWithSlash(p) THEN Tail(p) ELSE p

\* p.replace(/\/$/, '')
stripTrailingSlash(p) == IF endsWithSlash(p) THEN SubSeq(p, 1, Len(p) - 1) ELSE p

\* Java: s.replaceAll("//+", "/") -- every run of two or more '/' becomes one
RECURSIVE collapseSlashes(_)
collapseSlashes(p) ==
    IF Len(p) < 2 THEN p
    ELSE IF p[1] = "/" /\ p[2] = "/" THEN collapseSlashes(Tail(p))
    ELSE <<p[1]>> \o collapseSlashes(Tail(p))

\* p contains the two-character substring "//"
hasDoubleSlash(p) == \E n \in 1..(Len(p) - 1) : p[n] = "/" /\ p[n + 1] = "/"

(***************************************************************************)
(* Path composition routines                                               *)
(***************************************************************************)
\* analyzer.js (all versions): ensureLeadingSlash
ensureLeadingSlash(p) ==
    IF p = <<>> THEN Slash
    ELSE IF ~startsWithSlash(p) THEN Slash \o p
    ELSE p

\* src/src/analyzer.js buildFullPath: the separator is added only when the
\* method fragment has no slash of its own, and the method fragment's own
\* slash is then removed.
Analyzer_buildFullPath(base, meth) ==
    IF base = <<>> /\ meth = <<>> THEN Slash
    ELSE IF base = <<>> THEN ensureLeadingSlash(meth)
    ELSE IF meth = <<>> THEN ensureLeadingSlash(base)
    ELSE LET lead == ensureLeadingSlash(base)
             sep  == IF ~endsWithSlash(lead) /\ ~startsWithSlash(meth)
                     THEN lead \o Slash ELSE lead
         IN  sep \o stripLeadingSlash(meth)

\* analyzer.js with the JavaParser dispatcher, and the module-aware regex
\* analyzer: buildFullPath
buildFullPath(base, meth) ==
    IF base = <<>> /\ meth = <<>> THEN Slash
    ELSE IF base = <<>> THEN ensureLeadingSlash(meth)
    ELSE IF meth = <<>> THEN ensureLeadingSlash(base)
    ELSE LET lead == ensureLeadingSlash(base)
             sep  == IF ~endsWithSlash(lead) THEN lead \o Slash ELSE lead
         IN  sep \o stripLeadingSlash(meth)

\* AsyncAnalyzer.buildFullPath
AsyncAnalyzer_buildFullPath(classPath, meth) ==
    LET fp1 == IF classPath # <<>> /\ classPath # Slash THEN classPath ELSE <<>>
        fp2 == IF meth # <<>> /\ meth # Slash
               THEN (IF fp1 # <<>> /\ ~endsWithSlash(fp1) THEN fp1 \o Slash ELSE fp1)
                    \o meth
               ELSE fp1
    IN  IF fp2 = <<>> THEN Slash ELSE fp2

\* OptimizedAnalyzer.combinePaths
OptimizedAnalyzer_combinePaths(classPath, meth) ==
    IF classPath = <<>> \/ classPath = Slash THEN meth
    ELSE stripTrailingSlash(classPath)
         \o (IF startsWithSlash(meth) THEN meth ELSE Slash \o meth)

\* JavaParserWrapper.combinePaths (AST engine)
JavaParserWrapper_combinePaths(classPath, meth) ==
    IF classPath = <<>> THEN meth
    ELSE IF meth = <<>> THEN classPath
    ELSE LET combined == collapseSlashes(classPath \o Slash \o meth)
         IN  IF ~startsWithSlash(combined) THEN Slash \o combined ELSE combined

\* the routines that build Endpoint.path
PathRoutines == {"Analyzer.buildFullPath", "buildFullPath",
                 "AsyncAnalyzer.buildFullPath",
                 "OptimizedAnalyzer.combinePaths",
                 "JavaParserWrapper.combinePaths"}

\* the routines named buildFullPath
BuildFullPathRoutines == {"Analyzer.buildFullPath", "buildFullPath",
                          "AsyncAnalyzer.buildFullPath"}

composePath(r, base, meth) ==
    CASE r = "Analyzer.buildFullPath"         -> Analyzer_buildFullPath(base, meth)
      [] r = "buildFullPath"                  -> buildFullPath(base, meth)
      [] r = "AsyncAnalyzer.buildFullPath"    -> AsyncAnalyzer_buildFullPath(base, meth)
      [] r = "OptimizedAnalyzer.combinePaths" -> OptimizedAnalyzer_combinePaths(base, meth)
      [] r = "JavaParserWrapper.combinePaths" -> JavaParserWrapper_combinePaths(base, meth)

(***************************************************************************)
(* Inputs of the path routines                                             *)
(***************************************************************************)
PathAlphabet == {"/", "a"}

RECURSIVE SeqsUpTo(_, _)
SeqsUpTo(S, n) ==
    IF n = 0 THEN {<<>>}
    ELSE LET shorter == SeqsUpTo(S, n - 1)
         IN  shorter \cup {Append(s, c) : s \in {t \in shorter : Len(t) = n - 1}, c \in S}

api      == <<"a", "p", "i">>
slashApi == <<"/", "a", "p", "i">>
x        == <<"x">>
slashX   == <<"/", "x">>
apiX     == <<"/", "a", "p", "i", "/", "x">>

Fragments == SeqsUpTo(PathAlphabet, MaxFragLen) \cup {api, slashApi, x, slashX}

NoPaths == [r \in PathRoutines |-> <<"?">>]

PathInit ==
    /\ basePath \in Fragments
    /\ methodPath \in Fragments
    /\ fullPaths = NoPaths
    /\ pathPc = "input"

\* apply every composition routine to the drawn pair of fragments
ComposePaths ==
    /\ pathPc = "input"
    /\ fullPaths' = [r \in PathRoutines |-> composePath(r, basePath, methodPath)]
    /\ pathPc' = "done"
    /\ UNCHANGED <<basePath, methodPath>>
    /\ UNCHANGED notPathVars

PathIdle ==
    /\ basePath = <<>>
    /\ methodPath = <<>>
    /\ fullPaths = NoPaths
    /\ pathPc = "idle"

(***************************************************************************)
(* Java source lines.  A line is described by what the code's patterns can *)
(* see in it:                                                              *)
(*   ctrl    @RestController / @Controller        (name = annotation name) *)
(*   ctrlreq @RestController @RequestMapping("<arg>"), both annotations on *)
(*           one line                             (name = annotation name) *)
(*   class   [public] class <name> {                                       *)
(*   reqmap  @RequestMapping("<arg>")  (form "lit") or                     *)
(*           @RequestMapping(<arg>), <arg> an unquoted expression such as  *)
(*           Const.URL  (form "expr")                                      *)
(*   reqmeth @RequestMapping(value = "<arg>", method = RequestMethod.<name>)*)
(*           or, with name = "", @RequestMapping(value = "<arg>")          *)
(*   map     @<Verb>Mapping("<arg>")  (form "lit"), @<Verb>Mapping         *)
(*           (form "bare") or @<Verb>Mapping(<arg>), <arg> an unquoted     *)
(*           expression (form "expr"); name = the upper-case verb          *)
(*   method  [public] String <name>() {                                    *)
(*   other   a blank line                                                  *)
(***************************************************************************)
Line(k, name, arg, form, pub) ==
    [k |-> k, name |-> name, arg |-> arg, form |-> form, pub |-> pub]

CtrlLine(a)         == Line("ctrl", a, <<>>, "bare", FALSE)
CtrlReqLine(a, p)   == Line("ctrlreq", a, p, "lit", FALSE)
ClassLine(n, pub)   == Line("class", n, <<>>, "bare", pub)
ReqMapLine(p)       == Line("reqmap", "RequestMapping", p, "lit", FALSE)
MapLine(v, p)       == Line("map", v, p, "lit", FALSE)
BareMapLine(v)      == Line("map", v, <<>>, "bare", FALSE)
ExprReqMapLine(e)   == Line("reqmap", "RequestMapping", e, "expr", FALSE)
ExprMapLine(v, e)   == Line("map", v, e, "expr", FALSE)
ReqMethodLine(v, p) == Line("reqmeth", v, p, "pairs", FALSE)
MethodLine(n, pub)  == Line("method", n, <<>>, "bare", pub)
OtherLine           == Line("other", "", <<>>, "bare", FALSE)

Verbs == {"GET", "POST", "PUT", "DELETE", "PATCH"}

\* the annotation name a verb comes from: mappingMatch[1] + "Mapping"
MappingName(v) ==
    CASE v = "GET"    -> "GetMapping"
      [] v = "POST"   -> "PostMapping"
      [] v = "PUT"    -> "PutMapping"
      [] v = "DELETE" -> "DeleteMapping"
      [] v = "PATCH"  -> "PatchMapping"

Endpoint(method, path, className, methodName, lineNumber) ==
    [method |-> method, path |-> path, className |-> className,
     methodName |-> methodName, lineNumber |-> lineNumber]

(***************************************************************************)
(* The patterns of the line-oriented regex engines                         *)
(***************************************************************************)
controllerPattern_restOnly(l) == l.k \in {"ctrl", "ctrlreq"} /\ l.name = "RestController"

\* controllerPattern = /@(RestController|Controller)/
controllerPattern(l) == l.k \in {"ctrl", "ctrlreq"}

\* classPattern = /class\s+(\w+)/
classPattern(l) == l.k = "class"

\* requestMappingPattern with a quoted first argument
requestMappingPattern(l) == l.k \in {"reqmap", "ctrlreq"} /\ l.form = "lit"

\* mappingPattern of src/src/analyzer.js and of the module-aware regex
\* analyzer: the parenthesised argument is optional
mappingPatternOptArg(l) == l.k = "map"

\* mappingPattern of analyzeJavaFileFallback and AsyncAnalyzer.parseWithRegex:
\* the quoted argument is required
mappingPatternQuoted(l) == l.k = "map" /\ l.form = "lit"

\* the method-declaration shapes: <type> <name>(
methodPattern(l) == l.k = "method"

\* mappingMatch[2] || '': the quoted argument, '' when there is none
quotedArg(l) == IF l.form = "lit" THEN l.arg ELSE <<>>

\* the module-aware regex analyzer: the quoted argument, else the unquoted
\* expression as `{${variableMatch[1].trim()}}`, else ''
bracedArg(l) ==
    CASE l.form \in {"lit", "pairs"} -> l.arg
      [] l.form = "expr"             -> <<"{">> \o l.arg \o <<"}">>
      [] OTHER                       -> <<>>

ScanState(cls, base, ctl, eps) ==
    [currentClass |-> cls, classBasePath |-> base, isController |-> ctl,
     endpoints |-> eps]

InitialScanState == ScanState("", <<>>, FALSE, <<>>)

\* method name found in the two lines after line n (first match wins), or ""
lookaheadTwo(ls, n) ==
    IF n + 1 <= Len(ls) /\ methodPattern(ls[n + 1]) THEN ls[n + 1].name
    ELSE IF n + 2 <= Len(ls) /\ methodPattern(ls[n + 2]) THEN ls[n + 2].name
    ELSE ""

\* method name found in the line after line n, or ""
lookaheadOne(ls, n) ==
    IF n + 1 <= Len(ls) /\ methodPattern(ls[n + 1]) THEN ls[n + 1].name ELSE ""

\* src/src/analyzer.js analyzeJavaFile: one iteration of the line loop
Analyzer_scanLine(st, ls, n) ==
    LET l == ls[n] IN
    IF controllerPattern(l) THEN [st EXCEPT !.isController = TRUE]
    ELSE IF classPattern(l) THEN [st EXCEPT !.currentClass = l.name]
    ELSE IF requestMappingPattern(l) THEN [st EXCEPT !.classBasePath = l.arg]
    ELSE IF ~st.isController THEN st
    ELSE IF mappingPatternOptArg(l)
         THEN [st EXCEPT !.endpoints = Append(@,
                  Endpoint(l.name, Analyzer_buildFullPath(st.classBasePath, quotedArg(l)),
                           st.currentClass, lookaheadOne(ls, n), n))]
    ELSE st

\* module-aware regex analyzer analyzeJavaFile: one iteration of the line loop
Analyzer2_scanLine(st, ls, n) ==
    LET l == ls[n] IN
    IF controllerPattern(l) THEN [st EXCEPT !.isController = TRUE]
    ELSE IF classPattern(l) THEN [st EXCEPT !.currentClass = l.name]
    ELSE IF l.k \in {"reqmap", "reqmeth", "ctrlreq"}
         THEN [st EXCEPT !.classBasePath = bracedArg(l)]
    ELSE IF ~st.isController THEN st
    ELSE IF mappingPatternOptArg(l)
         THEN [st EXCEPT !.endpoints = Append(@,
                  Endpoint(l.name, buildFullPath(st.classBasePath, bracedArg(l)),
                           st.currentClass, lookaheadTwo(ls, n), n))]
    ELSE st

Fallback_scanLine_lenient(st, ls, n, r) ==
    LET l   == ls[n]
        st1 == IF classPattern(l) THEN [st EXCEPT !.currentClass = l.name] ELSE st
        st2 == IF controllerPattern(l) THEN [st1 EXCEPT !.isController = TRUE] ELSE st1
        st3 == IF requestMappingPattern(l) THEN [st2 EXCEPT !.classBasePath = l.arg]
               ELSE st2
    IN  IF mappingPatternQuoted(l) /\ st3.isController
        THEN [st3 EXCEPT !.endpoints = Append(@,
                  Endpoint(l.name, composePath(r, st3.classBasePath, l.arg),
                           st3.currentClass, lookaheadTwo(ls, n), n))]
        ELSE st3

\* analyzeJavaFileFallback / AsyncAnalyzer.parseWithRegex: one iteration of
\* the line loop; every pattern is tried on every line, and an endpoint is
\* emitted only when a method name was found.  r names the engine's path
\* composition routine.
Fallback_scanLine(st, ls, n, r) ==
    LET l   == ls[n]
        st1 == IF classPattern(l) THEN [st EXCEPT !.currentClass = l.name] ELSE st
        st2 == IF controllerPattern(l) THEN [st1 EXCEPT !.isController = TRUE] ELSE st1
        st3 == IF requestMappingPattern(l) THEN [st2 EXCEPT !.classBasePath = l.arg]
               ELSE st2
        methodName == lookaheadTwo(ls, n)
    IN  IF mappingPatternQuoted(l) /\ st3.isController /\ methodName # ""
        THEN [st3 EXCEPT !.endpoints = Append(@,
                  Endpoint(l.name, composePath(r, st3.classBasePath, l.arg),
                           st3.currentClass, methodName, n))]
        ELSE st3

\* AsyncAnalyzer.parseWithRegex: the same loop body, composing paths with
\* AsyncAnalyzer.buildFullPath.
ParseWithRegex_scanLine(st, ls, n) ==
    Fallback_scanLine(st, ls, n, "AsyncAnalyzer.buildFullPath")

(***************************************************************************)
(* OptimizedAnalyzer.parseEndpointsWithRegex: patterns over the whole      *)
(* content rather than line by line                                        *)
(***************************************************************************)
MinOf(S) == CHOOSE n \in S : \A m \in S : n <= m

\* content.match(/@RestController[\s\S]*?class\s+(\w+)/)
Optimized_className(ls) ==
    LET rc  == {n \in 1..Len(ls) : ls[n].k \in {"ctrl", "ctrlreq"}
                                  /\ ls[n].name = "RestController"}
        cls == {n \in 1..Len(ls) : ls[n].k = "class" /\ rc # {} /\ n > MinOf(rc)}
    IN  IF cls = {} THEN "" ELSE ls[MinOf(cls)].name

\* content.match(/@RequestMapping\("([^"]+)"\)/)
Optimized_classLevelPath(ls) ==
    LET rm == {n \in 1..Len(ls) : ls[n].k \in {"reqmap", "ctrlreq"} /\ ls[n].form = "lit"
                                  /\ ls[n].arg # <<>>}
    IN  IF rm = {} THEN <<>> ELSE ls[MinOf(rm)].arg

\* the lines in which (\w+)\s*\( finds a word followed by '(' and the word
callWord(l) ==
    CASE l.k = "method"                   -> l.name
      [] l.k = "map" /\ l.form \in {"lit", "expr"} -> MappingName(l.name)
      [] l.k \in {"reqmap", "reqmeth", "ctrlreq"} -> "RequestMapping"
      [] OTHER                            -> ""

\* methodPattern = /@(Get|Post|Put|Delete|Patch)Mapping\("([^"]+)"\)[\s\S]*?(\w+)\s*\(/g
\* applied repeatedly from line `from` on
RECURSIVE Optimized_matches(_, _, _, _)
Optimized_matches(ls, from, cls, base) ==
    LET maps == {n \in from..Len(ls) : ls[n].k = "map" /\ ls[n].form = "lit"
                                       /\ ls[n].arg # <<>>}
    IN  IF maps = {} THEN <<>>
        ELSE LET m     == MinOf(maps)
                 words == {n \in (m + 1)..Len(ls) : callWord(ls[n]) # ""}
             IN  IF words = {} THEN <<>>
                 ELSE LET w == MinOf(words)
                      IN  <<Endpoint(ls[m].name,
                                     OptimizedAnalyzer_combinePaths(base, ls[m].arg),
                                     cls, callWord(ls[w]), m)>>
                          \o Optimized_matches(ls, w + 1, cls, base)

parseEndpointsWithRegex(ls) ==
    Optimized_matches(ls, 1, Optimized_className(ls), Optimized_classLevelPath(ls))

(***************************************************************************)
(* AST engine: JavaParserWrapper.parseJavaFile                             *)
(***************************************************************************)
isAnnotation(l) == l.k \in {"ctrl", "ctrlreq", "reqmap", "reqmeth", "map"}
isDeclaration(l) == l.k \in {"class", "method"}

\* the annotation lines attached to the declaration on line d
annotationsOf(ls, d) ==
    {j \in 1..(d - 1) : /\ isAnnotation(ls[j])
                        /\ \A m \in j..(d - 1) : ~isDeclaration(ls[m])}

\* the class declaration that encloses line n (0 when there is none)
enclosingClass(ls, n) ==
    LET cs == {c \in 1..(n - 1) : ls[c].k = "class"}
    IN  IF cs = {} THEN 0 ELSE CHOOSE c \in cs : \A d \in cs : d <= c

\* StaticJavaParser.parse succeeds: every method is inside a class and every
\* annotation is followed by the declaration it annotates
parses(ls) ==
    /\ \A n \in 1..Len(ls) : ls[n].k = "method" => enclosingClass(ls, n) # 0
    /\ \A n \in 1..Len(ls) : isAnnotation(ls[n]) =>
            \E d \in (n + 1)..Len(ls) : isDeclaration(ls[d]) /\ n \in annotationsOf(ls, d)

\* getClassLevelPath: @RequestMapping's value, else the marker @RestController
\* gives "", else ""
getClassLevelPath(ls, c) ==
    LET rm == {j \in annotationsOf(ls, c) : ls[j].k \in {"reqmap", "reqmeth", "ctrlreq"}}
    IN  IF rm = {} THEN <<>> ELSE ls[MinOf(rm)].arg

\* iteration order of the HashMap<String,String> of getMethodLevelMappings:
\* bucket index (hash ^ hash >>> 16) & 15 of the verb, PUT before PATCH in
\* their shared bucket
HashMapOrder == <<"DELETE", "POST", "GET", "PUT", "PATCH">>

extractHttpMethod_raw(methodValue) == methodValue

\* extractHttpMethod(methodValue): the RequestMethod named in the method
\* attribute when it is one of the five, else null
extractHttpMethod(methodValue) == IF methodValue \in Verbs THEN methodValue ELSE "null"

\* the key under which the @RequestMapping on line j of a method is put: a
\* single-member @RequestMapping(...) has its only member returned by
\* getAnnotationValue for "method" too, and extractHttpMethod finds no
\* RequestMethod in it; without a method attribute the key is GET
requestMappingKey(l) ==
    IF l.k = "reqmeth"
    THEN IF l.name = "" THEN "GET" ELSE extractHttpMethod(l.name)
    ELSE "null"

\* getMethodLevelMappings for the method on line m: one HashMap entry per
\* verb.  The value is that of the first annotation of the verb's name,
\* overwritten by the value of the method's first @RequestMapping when this
\* is put under the same key; whatever extractHttpMethod returns other than
\* null is a key.
\* the first @RequestMapping among the annotations of the method on line m,
\* 0 when it has none
firstRequestMapping(ls, m) ==
    IF \E j \in annotationsOf(ls, m) : ls[j].k \in {"reqmap", "reqmeth"}
    THEN MinOf({j \in annotationsOf(ls, m) : ls[j].k \in {"reqmap", "reqmeth"}})
    ELSE 0

\* the k-th key of the HashMap: the five verbs in iteration order, then the
\* key of the @RequestMapping on line rm when it is none of them
hashMapKey(ls, rm, k) ==
    IF k <= Len(HashMapOrder) THEN HashMapOrder[k]
    ELSE IF rm = 0 THEN "null"
    ELSE IF requestMappingKey(ls[rm]) \in Verbs THEN "null"
    ELSE requestMappingKey(ls[rm])

\* the entry under key v: the value of the @RequestMapping on line rm when
\* it was put under v, else that of the first annotation named after v
hashMapEntry(ls, m, cls, base, rm, v) ==
    IF v = "null" THEN <<>>
    ELSE IF rm # 0 /\ requestMappingKey(ls[rm]) = v
    THEN <<Endpoint(v, JavaParserWrapper_combinePaths(base, ls[rm].arg),
                    cls, ls[m].name, 1)>>
    ELSE IF \A j \in annotationsOf(ls, m) : ~(ls[j].k = "map" /\ ls[j].name = v)
    THEN <<>>
    ELSE <<Endpoint(v, JavaParserWrapper_combinePaths(base,
                          ls[MinOf({j \in annotationsOf(ls, m) :
                                       ls[j].k = "map" /\ ls[j].name = v})].arg),
                    cls, ls[m].name, 1)>>

RECURSIVE methodMappingsFrom(_, _, _, _, _, _)
methodMappingsFrom(ls, m, cls, base, rm, k) ==
    IF k > Len(HashMapOrder) + 1 THEN <<>>
    ELSE hashMapEntry(ls, m, cls, base, rm, hashMapKey(ls, rm, k))
         \o methodMappingsFrom(ls, m, cls, base, rm, k + 1)

methodMappings(ls, m, cls, base, k) ==
    methodMappingsFrom(ls, m, cls, base, firstRequestMapping(ls, m), k)

\* the loops over the public classes and their public methods
RECURSIVE astEndpoints(_, _)
astEndpoints(ls, n) ==
    IF n > Len(ls) THEN <<>>
    ELSE LET c == enclosingClass(ls, n)
         IN  (IF ls[n].k = "method" /\ ls[n].pub /\ c # 0 /\ ls[c].pub
              THEN methodMappings(ls, n, ls[c].name, getClassLevelPath(ls, c), 1)
              ELSE <<>>)
             \o astEndpoints(ls, n + 1)

\* parseJavaFile: the endpoints in declaration order
parseJavaFile(ls) == astEndpoints(ls, 1)

(***************************************************************************)
(* Running the engines on one file, one after the other                    *)
(***************************************************************************)
LineEngines == {"analyzer", "analyzer2", "fallback", "async"}
RegexEngines == LineEngines \cup {"optimized"}
Engines == RegexEngines \cup {"ast"}
EngineOrder == <<"analyzer", "analyzer2", "fallback", "async", "optimized", "ast">>

nextEngine(e) ==
    LET k == CHOOSE n \in 1..Len(EngineOrder) : EngineOrder[n] = e
    IN  IF k = Len(EngineOrder) THEN "done" ELSE EngineOrder[k + 1]

Pending == [status |-> "pending", endpoints |-> <<>>, isController |-> FALSE]
Returned(eps, ctl) == [status |-> "returned", endpoints |-> eps, isController |-> ctl]
Failed == [status |-> "failed", endpoints |-> <<>>, isController |-> FALSE]

scanState == ScanState(currentClass, classBasePath, isController, endpoints)

setScanState(st) ==
    /\ currentClass' = st.currentClass
    /\ classBasePath' = st.classBasePath
    /\ isController' = st.isController
    /\ endpoints' = st.endpoints

ScanInitWith(files) ==
    /\ lines \in files
    /\ engine = EngineOrder[1]
    /\ i = 1
    /\ currentClass = ""
    /\ classBasePath = <<>>
    /\ isController = FALSE
    /\ endpoints = <<>>
    /\ results = [e \in Engines |-> Pending]

ScanIdle ==
    /\ lines = <<>>
    /\ engine = "idle"
    /\ i = 1
    /\ currentClass = ""
    /\ classBasePath = <<>>
    /\ isController = FALSE
    /\ endpoints = <<>>
    /\ results = [e \in Engines |-> Pending]

ScanLine_analyzer ==
    /\ engine = "analyzer" /\ i <= Len(lines)
    /\ setScanState(Analyzer_scanLine(scanState, lines, i))
    /\ i' = i + 1
    /\ UNCHANGED <<lines, engine, results>>
    /\ UNCHANGED notScanVars

ScanLine_analyzer2 ==
    /\ engine = "analyzer2" /\ i <= Len(lines)
    /\ setScanState(Analyzer2_scanLine(scanState, lines, i))
    /\ i' = i + 1
    /\ UNCHANGED <<lines, engine, results>>
    /\ UNCHANGED notScanVars

ScanLine_fallback ==
    /\ engine = "fallback" /\ i <= Len(lines)
    /\ setScanState(Fallback_scanLine(scanState, lines, i, "buildFullPath"))
    /\ i' = i + 1
    /\ UNCHANGED <<lines, engine, results>>
    /\ UNCHANGED notScanVars

ScanLine_async ==
    /\ engine = "async" /\ i <= Len(lines)
    /\ setScanState(ParseWithRegex_scanLine(scanState, lines, i))
    /\ i' = i + 1
    /\ UNCHANGED <<lines, engine, results>>
    /\ UNCHANGED notScanVars

\* return { endpoints, isController } at the end of the line loop
ReturnScan ==
    /\ engine \in LineEngines /\ i > Len(lines)
    /\ results' = [results EXCEPT ![engine] = Returned(endpoints, isController)]
    /\ engine' = nextEngine(engine)
    /\ i' = 1
    /\ setScanState(InitialScanState)
    /\ UNCHANGED lines
    /\ UNCHANGED notScanVars

RunOptimizedRegex ==
    /\ engine = "optimized"
    /\ results' = [results EXCEPT !["optimized"] =
                      Returned(parseEndpointsWithRegex(lines), FALSE)]
    /\ engine' = nextEngine(engine)
    /\ UNCHANGED <<lines, i, currentClass, classBasePath, isController, endpoints>>
    /\ UNCHANGED notScanVars

\* JavaParserWrapper.main: the endpoints, or exit code 1 on a parse error
RunAst ==
    /\ engine = "ast"
    /\ results' = [results EXCEPT !["ast"] =
                      IF parses(lines)
                      THEN LET eps == parseJavaFile(lines)
                           IN  Returned(eps, Len(eps) > 0)
                      ELSE Failed]
    /\ engine' = nextEngine(engine)
    /\ UNCHANGED <<lines, i, currentClass, classBasePath, isController, endpoints>>
    /\ UNCHANGED notScanVars

ScanNext ==
    \/ ScanLine_analyzer
    \/ ScanLine_analyzer2
    \/ ScanLine_fallback
    \/ ScanLine_async
    \/ ReturnScan
    \/ RunOptimizedRegex
    \/ RunAst

(***************************************************************************)
(* Input files                                                             *)
(***************************************************************************)
pathP == <<"/", "p">>
pathM == <<"/", "m">>

\* every line the small files are made of
LineVocabulary ==
    {CtrlLine("RestController"), CtrlLine("Controller"),
     ClassLine("C", TRUE), ClassLine("C", FALSE),
     ReqMapLine(pathP),
     MapLine("GET", pathM), BareMapLine("POST"),
     MethodLine("f", TRUE), MethodLine("f", FALSE),
     OtherLine}

SmallFiles == SeqsUpTo(LineVocabulary, MaxLines)

\* lines that match one pattern each, and the line that matches two
ClassifyVocabulary ==
    {CtrlLine("RestController"), CtrlReqLine("RestController", pathP),
     ClassLine("C", TRUE), ReqMapLine(pathP), MapLine("GET", pathM),
     MethodLine("f", TRUE)}

ClassifyFiles == SeqsUpTo(ClassifyVocabulary, MaxLines)

\* a controller with one verb mapping and what follows the mapping line:
\* blank lines and method declarations, up to MaxAfterMapping lines
AfterMappingVocabulary == {OtherLine, MethodLine("f", TRUE), MethodLine("g", TRUE)}

LookaheadFiles ==
    {<<CtrlLine("RestController"), ClassLine("C", TRUE), MapLine("GET", pathM)>> \o after :
        after \in SeqsUpTo(AfterMappingVocabulary, MaxAfterMapping)}

\* what follows the declaration of a mapped controller class: a handler under
\* a verb mapping, a handler under a method-level @RequestMapping (quoted
\* path, or value = / method = pairs), the declaration of a later class
pathX == <<"/", "x">>

ClassBodyParts ==
    {<<MapLine("GET", pathM), MethodLine("f", TRUE)>>,
     <<ReqMapLine(pathX), MethodLine("g", TRUE)>>,
     <<ReqMethodLine("GET", pathX), MethodLine("g", TRUE)>>,
     <<ClassLine("D", TRUE)>>}

\* the lines of a sequence of parts, one after the other
RECURSIVE linesOf(_)
linesOf(parts) == IF parts = <<>> THEN <<>> ELSE Head(parts) \o linesOf(Tail(parts))

ClassBodyFiles ==
    {<<CtrlLine("RestController"), ReqMapLine(pathP), ClassLine("C", TRUE)>> \o linesOf(parts) :
        parts \in SeqsUpTo(ClassBodyParts, MaxBodyParts)}

\* files of the shape of test/HelloController.java: @RestController and
\* @RequestMapping("/p") in either order, the class declaration, then
\* mapping lines each directly followed by its method declaration
HandlerNames == {"f", "g"}

HelloHeaders ==
    {<<CtrlLine("RestController"), ReqMapLine(pathP), ClassLine("C", pub)>> :
        pub \in BOOLEAN}
    \cup {<<ReqMapLine(pathP), CtrlLine("RestController"), ClassLine("C", pub)>> :
        pub \in BOOLEAN}

HandlerPairs ==
    {<<MapLine(v, pathM), MethodLine(n, pub)>> :
        v \in Verbs, n \in HandlerNames, pub \in BOOLEAN}

RECURSIVE HandlerBodies(_)
HandlerBodies(n) ==
    IF n = 0 THEN {<<>>}
    ELSE LET shorter == HandlerBodies(n - 1)
         IN  shorter \cup {b \o pr : b \in {t \in shorter : Len(t) = 2 * (n - 1)},
                                     pr \in HandlerPairs}

pathApi   == <<"/", "a", "p", "i">>
pathHello == <<"/", "h", "e", "l", "l", "o">>
pathTest  == <<"/", "t", "e", "s", "t">>

\* test/HelloController.java, all 20 lines
HelloControllerFile ==
    <<OtherLine, OtherLine, OtherLine, OtherLine, OtherLine, OtherLine,
      CtrlLine("RestController"), ReqMapLine(pathApi),
      ClassLine("HelloController", TRUE), OtherLine,
      MapLine("GET", pathHello), MethodLine("hello", TRUE), OtherLine, OtherLine,
      OtherLine,
      MapLine("GET", pathTest), MethodLine("test", TRUE), OtherLine, OtherLine,
      OtherLine>>

HelloFiles ==
    {h \o b : h \in HelloHeaders, b \in HandlerBodies(MaxMappings) \ {<<>>}}
    \cup {HelloControllerFile}

\* the unquoted expression Const.REST_API_URL_IVR_SCRIPT of
\* test/VariableUrlController.java
exprConst == <<"Const.REST_API_URL_IVR_SCRIPT">>

\* the RequestMethod constants a method attribute names; "" stands for a
\* @RequestMapping without the attribute
RequestMethods == {"GET", "HEAD", ""}

\* the mapping annotations a handler method carries
MethodAnnotations ==
    {MapLine("GET", pathM), MapLine("POST", pathM), ExprMapLine("GET", exprConst),
     ReqMapLine(pathM)}
    \cup {ReqMethodLine(v, pathP) : v \in RequestMethods}

\* the name of the annotation on line l
annotationName(l) == IF l.k = "map" THEN MappingName(l.name) ELSE "RequestMapping"

\* no annotation type is repeated on one declaration
AnnotationLists ==
    {s \in SeqsUpTo(MethodAnnotations, MaxMappings) :
        /\ s # <<>>
        /\ \A a, b \in DOMAIN s : a # b => annotationName(s[a]) # annotationName(s[b])}

ClassMappings == {<<>>, <<ReqMapLine(pathP)>>, <<ExprReqMapLine(exprConst)>>}

\* a public @RestController class C, with or without a class-level mapping,
\* and one public handler f under its mapping annotations
MappingFiles ==
    {<<CtrlLine("RestController")>> \o cm \o <<ClassLine("C", TRUE)>>
        \o anns \o <<MethodLine("f", TRUE)>> :
        cm \in ClassMappings, anns \in AnnotationLists}

(***************************************************************************)
(* Dispatchers: the AST engine on each file, the regex engine when it      *)
(* fails                                                                   *)
(***************************************************************************)
\* A scanned file: its lines; whether it can be read at the first access of
\* the run and at the later ones (a file may vanish in between); and what
\* the java subprocess does on it.
JavaFile(content, readable, stillReadable, java) ==
    [content |-> content, readable |-> readable,
     stillReadable |-> stillReadable, java |-> java]

\* the subprocess runs JavaParserWrapper.main ("json"), cannot be run or is
\* killed ("exit"), or exits 0 having printed nothing ("empty") or text
\* that is not JSON ("garbage")
JavaOutcomes == {"json", "exit", "empty", "garbage"}

ProcessResult(code, stdout, eps) == [code |-> code, stdout |-> stdout, endpoints |-> eps]

\* JavaParserWrapper.main on file f: "[", one JSON object per endpoint, "]";
\* exit code 1 when the file cannot be read or parsed
JavaParserWrapper_main(f, canRead) ==
    IF canRead /\ parses(f.content)
    THEN ProcessResult(0, "json", parseJavaFile(f.content))
    ELSE ProcessResult(1, "empty", <<>>)

\* java -jar JavaParserWrapper.jar <file> <root>
javaProcess(f, canRead) ==
    CASE f.java = "json"    -> JavaParserWrapper_main(f, canRead)
      [] f.java = "exit"    -> ProcessResult(1, "empty", <<>>)
      [] f.java = "empty"   -> ProcessResult(0, "empty", <<>>)
      [] f.java = "garbage" -> ProcessResult(0, "garbage", <<>>)

\* what a per-file routine hands back: a value, or an exception / rejection
Ok(eps, ctl, used) ==
    [status |-> "ok", endpoints |-> eps, isController |-> ctl, used |-> used]
Throw == [status |-> "throw", endpoints |-> <<>>, isController |-> FALSE, used |-> "none"]

\* the line loops run to the end of the file
RECURSIVE Analyzer2_run(_, _, _)
Analyzer2_run(st, ls, n) ==
    IF n > Len(ls) THEN st ELSE Analyzer2_run(Analyzer2_scanLine(st, ls, n), ls, n + 1)

RECURSIVE Fallback_run(_, _, _, _)
Fallback_run(st, ls, n, r) ==
    IF n > Len(ls) THEN st ELSE Fallback_run(Fallback_scanLine(st, ls, n, r), ls, n + 1, r)

\* module-aware regex analyzer analyzeJavaFile: read the file, scan it;
\* a read error is rethrown
Analyzer2_analyzeJavaFile(f) ==
    IF f.readable
    THEN LET st == Analyzer2_run(InitialScanState, f.content, 1)
         IN  Ok(st.endpoints, st.isController, "regex")
    ELSE Throw

\* analyzeJavaFileFallback: read the file, scan it; a read error is rethrown
analyzeJavaFileFallback(f) ==
    IF f.stillReadable
    THEN LET st == Fallback_run(InitialScanState, f.content, 1, "buildFullPath")
         IN  Ok(st.endpoints, st.isController, "regex")
    ELSE Throw

\* analyzeJavaFile with JavaParser: execSync throws on a non-zero exit;
\* empty output and output that JSON.parse rejects also go to the fallback
analyzeJavaFile(f) ==
    LET p == javaProcess(f, f.readable) IN
    IF p.code # 0 THEN analyzeJavaFileFallback(f)
    ELSE IF p.stdout = "empty" THEN analyzeJavaFileFallback(f)
    ELSE IF p.stdout = "garbage" THEN analyzeJavaFileFallback(f)
    ELSE Ok(p.endpoints, Len(p.endpoints) > 0, "ast")

\* AsyncAnalyzer.analyzeJavaFileAsync: rejects on a non-zero exit, on empty
\* output and on output that JSON.parse rejects
analyzeJavaFileAsync(f) ==
    LET p == javaProcess(f, f.readable) IN
    IF p.code # 0 \/ p.stdout = "empty" \/ p.stdout = "garbage" THEN Throw
    ELSE Ok(p.endpoints, Len(p.endpoints) > 0, "ast")

\* AsyncAnalyzer.analyzeJavaFileFallbackAsync
analyzeJavaFileFallbackAsync(f) ==
    IF f.stillReadable
    THEN LET st == Fallback_run(InitialScanState, f.content, 1,
                                "AsyncAnalyzer.buildFullPath")
         IN  Ok(st.endpoints, st.isController, "regex")
    ELSE Throw

\* AsyncAnalyzer.analyzeSingleFile: JavaParser first, regex on rejection
analyzeSingleFile(f) ==
    LET r == analyzeJavaFileAsync(f) IN
    IF r.status = "throw" THEN analyzeJavaFileFallbackAsync(f) ELSE r

\* OptimizedAnalyzer.analyzeSingleFileWithJavaParser: rejects on a non-zero
\* exit only; lines that are not JSON are dropped one by one, and an
\* endpoint is kept when httpMethod and path are both non-empty
analyzeSingleFileWithJavaParser(f) ==
    LET p == javaProcess(f, f.stillReadable) IN
    IF p.code # 0 THEN Throw
    ELSE IF p.stdout = "json"
         THEN Ok(SelectSeq(p.endpoints, LAMBDA ep : ep.method # "" /\ ep.path # <<>>),
                 FALSE, "ast")
         ELSE Ok(<<>>, FALSE, "ast")

\* OptimizedAnalyzer.analyzeSingleFileWithRegex: a read error is logged and
\* the file yields no endpoint
analyzeSingleFileWithRegex(f) ==
    IF f.stillReadable
    THEN Ok(parseEndpointsWithRegex(f.content), FALSE, "regex")
    ELSE Ok(<<>>, FALSE, "skipped")

\* the body of the loop of OptimizedAnalyzer.analyzeFilesWithJavaParser:
\* JavaParser first, regex when it rejects
analyzeFilesWithJavaParser(f) ==
    LET r == analyzeSingleFileWithJavaParser(f) IN
    IF r.status = "throw" THEN analyzeSingleFileWithRegex(f) ELSE r

(***************************************************************************)
(* A run: the dispatcher's loop over the scanned files                     *)
(***************************************************************************)
Dispatchers == {"analyzeEndpoints", "analyzeJavaFile", "OptimizedAnalyzer",
                "AsyncAnalyzer"}

Min2(a, b) == IF a < b THEN a ELSE b
Max2(a, b) == IF a > b THEN a ELSE b

\* the elements of a set of numbers in ascending order
RECURSIVE ascending(_)
ascending(S) == IF S = {} THEN <<>> ELSE <<MinOf(S)>> \o ascending(S \ {MinOf(S)})

\* results.push(...fileResults) over a sequence of per-file results
RECURSIVE Flatten(_)
Flatten(ss) == IF ss = <<>> THEN <<>> ELSE Head(ss) \o Flatten(Tail(ss))

\* an endpoint together with the file it was found in
FileEndpoint(ep, k) ==
    [filePath |-> k, method |-> ep.method, path |-> ep.path,
     className |-> ep.className, methodName |-> ep.methodName,
     lineNumber |-> ep.lineNumber]

inFile(eps, k) == [n \in 1..Len(eps) |-> FileEndpoint(eps[n], k)]

\* new Set(endpoints.map(ep => ep.className)).size
distinctClassNames(eps) == Cardinality({eps[n].className : n \in 1..Len(eps)})

NotCached == [cached |-> FALSE, endpoints |-> <<>>]
Cached(eps) == [cached |-> TRUE, endpoints |-> eps]

\* const batchSize = 10
batchSize == 10

\* os.cpus().length on the machines considered
CpuCounts == {1, 3}

\* Math.min(8, Math.max(2, os.cpus().length))
AsyncAnalyzer_maxWorkers(cpus) == Min2(8, Max2(2, cpus))

\* Math.min(8, Math.max(2, this.maxWorkers * 2))
concurrency == Min2(8, Max2(2, maxWorkers * 2))

RunInitWith(fileLists) ==
    /\ javaFiles \in fileLists
    /\ dispatcher \in Dispatchers
    /\ IF dispatcher = "AsyncAnalyzer"
       THEN /\ maxWorkers \in {AsyncAnalyzer_maxWorkers(c) : c \in CpuCounts}
            /\ runStatus = "start"
       ELSE /\ maxWorkers = 0
            /\ runStatus = "running"
    /\ position = 0
    /\ allEndpoints = <<>>
    /\ controllerTally = 0
    /\ strategy = [k \in 1..Len(javaFiles) |-> "todo"]
    /\ resultsCache = [k \in 1..Len(javaFiles) |-> NotCached]
    /\ analysisTasks = <<>>
    /\ asyncEndpoints = <<>>

RunIdle ==
    /\ javaFiles = <<>>
    /\ dispatcher = "none"
    /\ maxWorkers = 0
    /\ runStatus = "idle"
    /\ position = 0
    /\ allEndpoints = <<>>
    /\ controllerTally = 0
    /\ strategy = <<>>
    /\ resultsCache = <<>>
    /\ analysisTasks = <<>>
    /\ asyncEndpoints = <<>>

\* the loop of a dispatcher takes the result of file k
takeFileResult(k, r) ==
    /\ allEndpoints' = allEndpoints \o inFile(r.endpoints, k)
    /\ controllerTally' = controllerTally + (IF r.isController THEN 1 ELSE 0)
    /\ strategy' = [strategy EXCEPT ![k] = r.used]
    /\ position' = k

\* an exception leaves the dispatcher: the run ends with it
raiseToCaller ==
    /\ runStatus' = "raised"
    /\ UNCHANGED <<allEndpoints, controllerTally, strategy, position>>

\* the loop body without its try/catch: the read error leaves the loop
analyzeEndpoints_tryFile_uncaught(f) == Analyzer2_analyzeJavaFile(f)

\* analyzeEndpoints(javaFiles, moduleInfo), body of the for loop: the
\* try/catch around analyzeJavaFile logs a warning and goes on
analyzeEndpoints_tryFile(f) ==
    LET r == Analyzer2_analyzeJavaFile(f) IN
    IF r.status = "throw" THEN Ok(<<>>, FALSE, "skipped") ELSE r

AnalyzeEndpoints_file ==
    /\ dispatcher = "analyzeEndpoints" /\ runStatus = "running"
    /\ position < Len(javaFiles)
    /\ LET k == position + 1
           r == analyzeEndpoints_tryFile(javaFiles[k])
       IN  IF r.status = "throw" THEN raiseToCaller
           ELSE takeFileResult(k, r) /\ UNCHANGED runStatus
    /\ UNCHANGED <<javaFiles, dispatcher, maxWorkers, resultsCache, analysisTasks,
                   asyncEndpoints>>
    /\ UNCHANGED notRunVars

\* the exported analyzeJavaFile (JavaParser with regex fallback) called on
\* each file in turn; its rejection reaches the caller
AnalyzeJavaFile_call ==
    /\ dispatcher = "analyzeJavaFile" /\ runStatus = "running"
    /\ position < Len(javaFiles)
    /\ LET k == position + 1
           r == analyzeJavaFile(javaFiles[k])
       IN  IF r.status = "throw" THEN raiseToCaller
           ELSE takeFileResult(k, r) /\ UNCHANGED runStatus
    /\ UNCHANGED <<javaFiles, dispatcher, maxWorkers, resultsCache, analysisTasks,
                   asyncEndpoints>>
    /\ UNCHANGED notRunVars

\* return { endpoints, controllerCount } after the last file
LoopReturns ==
    /\ dispatcher \in {"analyzeEndpoints", "analyzeJavaFile"} /\ runStatus = "running"
    /\ position = Len(javaFiles)
    /\ runStatus' = "returned"
    /\ UNCHANGED <<javaFiles, dispatcher, maxWorkers, position, allEndpoints,
                   controllerTally, strategy, resultsCache, analysisTasks,
                   asyncEndpoints>>
    /\ UNCHANGED notRunVars

\* OptimizedAnalyzer.processBatch, first loop: a file that cannot be
\* stat'ed or read is logged and left out; a cached result that is not empty
\* is returned at once for the whole batch, an empty one skips the file
RECURSIVE collectBatch(_, _, _, _)
collectBatch(files, cache, ks, valid) ==
    IF ks = <<>> THEN [hit |-> FALSE, endpoints |-> <<>>, valid |-> valid]
    ELSE LET k == Head(ks) IN
         IF ~files[k].readable THEN collectBatch(files, cache, Tail(ks), valid)
         ELSE IF cache[k].cached
              THEN IF Len(cache[k].endpoints) > 0
                   THEN [hit |-> TRUE, endpoints |-> cache[k].endpoints, valid |-> <<>>]
                   ELSE collectBatch(files, cache, Tail(ks), valid)
              ELSE collectBatch(files, cache, Tail(ks), Append(valid, k))

\* filePaths.slice(i, i + batchSize), as file indices
batchSlice(files, done) ==
    [n \in 1..Min2(batchSize, Len(files) - done) |-> done + n]

\* OptimizedAnalyzer.processBatch: the endpoints of the batch
processBatch(files, cache, ks) ==
    LET c == collectBatch(files, cache, ks, <<>>) IN
    IF c.hit THEN c.endpoints
    ELSE Flatten([n \in 1..Len(c.valid) |->
                    inFile(analyzeFilesWithJavaParser(files[c.valid[n]]).endpoints,
                           c.valid[n])])

\* this.resultsCache after the batch: every file that was analysed and can
\* still be stat'ed has its result stored
cacheAfterBatch(files, cache, ks) ==
    LET c     == collectBatch(files, cache, ks, <<>>)
        valid == {c.valid[n] : n \in 1..Len(c.valid)}
    IN  [k \in DOMAIN cache |->
           IF k \in valid /\ files[k].stillReadable
           THEN Cached(inFile(analyzeFilesWithJavaParser(files[k]).endpoints, k))
           ELSE cache[k]]

\* OptimizedAnalyzer.analyzeBatch from the batch that starts after done files
RECURSIVE analyzeBatch(_, _, _)
analyzeBatch(files, cache, done) ==
    IF done >= Len(files) THEN <<>>
    ELSE LET ks == batchSlice(files, done)
         IN  processBatch(files, cache, ks)
             \o analyzeBatch(files, cacheAfterBatch(files, cache, ks), done + batchSize)

\* one pass of the loop of OptimizedAnalyzer.analyzeBatch
ProcessBatch ==
    /\ dispatcher = "OptimizedAnalyzer" /\ runStatus = "running"
    /\ position < Len(javaFiles)
    /\ LET ks    == batchSlice(javaFiles, position)
           c     == collectBatch(javaFiles, resultsCache, ks, <<>>)
           valid == {c.valid[n] : n \in 1..Len(c.valid)}
           batch == {ks[n] : n \in 1..Len(ks)}
       IN  /\ allEndpoints' = allEndpoints \o processBatch(javaFiles, resultsCache, ks)
           /\ strategy' = [k \in DOMAIN strategy |->
                             IF k \in valid
                             THEN analyzeFilesWithJavaParser(javaFiles[k]).used
                             ELSE IF k \in batch THEN "skipped" ELSE strategy[k]]
           /\ resultsCache' = cacheAfterBatch(javaFiles, resultsCache, ks)
    /\ position' = position + batchSize
    /\ UNCHANGED <<javaFiles, dispatcher, maxWorkers, runStatus, controllerTally,
                   analysisTasks, asyncEndpoints>>
    /\ UNCHANGED notRunVars

\* OptimizedAnalyzer.analyzeEndpoints returns: no file at all, or every
\* batch done; controllerCount is the number of distinct class names
AnalyzeBatch_return ==
    /\ dispatcher = "OptimizedAnalyzer" /\ runStatus = "running"
    /\ position >= Len(javaFiles)
    /\ runStatus' = "returned"
    /\ controllerTally' = distinctClassNames(allEndpoints)
    /\ UNCHANGED <<javaFiles, dispatcher, maxWorkers, position, allEndpoints,
                   strategy, resultsCache, analysisTasks, asyncEndpoints>>
    /\ UNCHANGED notRunVars

\* a caller hands the same list to analyzeBatch of the same OptimizedAnalyzer
\* once more: const results = [] and the loop start over, this.resultsCache
\* is the instance's and keeps what the earlier call stored
AnalyzeBatch_again ==
    /\ dispatcher = "OptimizedAnalyzer" /\ runStatus = "returned"
    /\ javaFiles # <<>>
    /\ runStatus' = "running"
    /\ position' = 0
    /\ allEndpoints' = <<>>
    /\ strategy' = [k \in DOMAIN strategy |-> "todo"]
    /\ UNCHANGED <<javaFiles, dispatcher, maxWorkers, controllerTally, resultsCache,
                   analysisTasks, asyncEndpoints>>
    /\ UNCHANGED notRunVars

\* AsyncAnalyzer.analyzeEndpointsAsync up to processTasksAsync: the tables
\* are emptied and every scanned file becomes a pending task; with no file
\* the run returns at once
AnalyzeEndpointsAsync_enqueue ==
    /\ dispatcher = "AsyncAnalyzer" /\ runStatus = "start"
    /\ asyncEndpoints' = <<>>
    /\ IF Len(javaFiles) = 0
       THEN runStatus' = "returned" /\ analysisTasks' = <<>>
       ELSE /\ runStatus' = "running"
            /\ analysisTasks' = [k \in 1..Len(javaFiles) |-> "pending"]
    /\ UNCHANGED <<javaFiles, dispatcher, maxWorkers, position, allEndpoints,
                   controllerTally, strategy, resultsCache>>
    /\ UNCHANGED notRunVars

\* getPendingTasks(db, limit): the first limit pending task ids
getPendingTasks(tasks, limit) ==
    LET pending == {k \in DOMAIN tasks : tasks[k] = "pending"}
    IN  {k \in pending : Cardinality({j \in pending : j < k}) < limit}

\* the task callback of processTasksAsync: a rejection marks the task failed;
\* endpoints are saved and returned, which leaves the task 'processing';
\* a file without endpoints completes the task
processTask(f) ==
    LET r == analyzeSingleFile(f) IN
    IF r.status = "throw"
    THEN [task |-> "failed", endpoints |-> <<>>, used |-> "skipped"]
    ELSE IF Len(r.endpoints) > 0
         THEN [task |-> "processing", endpoints |-> r.endpoints, used |-> r.used]
         ELSE [task |-> "completed", endpoints |-> <<>>, used |-> r.used]

\* one pass of the while loop of processTasksAsync
ProcessTasksAsync_round ==
    /\ dispatcher = "AsyncAnalyzer" /\ runStatus = "running"
    /\ getPendingTasks(analysisTasks, concurrency) # {}
    /\ LET batch == getPendingTasks(analysisTasks, concurrency)
           ks    == ascending(batch)
           found == Flatten([n \in 1..Len(ks) |->
                               inFile(processTask(javaFiles[ks[n]]).endpoints, ks[n])])
       IN  /\ analysisTasks' = [k \in DOMAIN analysisTasks |->
                                  IF k \in batch THEN processTask(javaFiles[k]).task
                                  ELSE analysisTasks[k]]
           /\ strategy' = [k \in DOMAIN strategy |->
                             IF k \in batch THEN processTask(javaFiles[k]).used
                             ELSE strategy[k]]
           /\ allEndpoints' = allEndpoints \o found
           /\ asyncEndpoints' = asyncEndpoints \o found
           /\ position' = position + Cardinality(batch)
    /\ UNCHANGED <<javaFiles, dispatcher, maxWorkers, runStatus, controllerTally,
                   resultsCache>>
    /\ UNCHANGED notRunVars

\* no pending task is left: processTasksAsync returns and
\* analyzeEndpointsAsync counts the distinct class names
ProcessTasksAsync_return ==
    /\ dispatcher = "AsyncAnalyzer" /\ runStatus = "running"
    /\ getPendingTasks(analysisTasks, concurrency) = {}
    /\ runStatus' = "returned"
    /\ controllerTally' = distinctClassNames(allEndpoints)
    /\ UNCHANGED <<javaFiles, dispatcher, maxWorkers, position, allEndpoints,
                   strategy, resultsCache, analysisTasks, asyncEndpoints>>
    /\ UNCHANGED notRunVars

RunNext ==
    \/ AnalyzeEndpoints_file
    \/ AnalyzeJavaFile_call
    \/ LoopReturns
    \/ ProcessBatch
    \/ AnalyzeBatch_return
    \/ AnalyzeEndpointsAsync_enqueue
    \/ ProcessTasksAsync_round
    \/ ProcessTasksAsync_return

(***************************************************************************)
(* The files of a run                                                      *)
(***************************************************************************)
\* a public controller with one handler
ControllerSource ==
    <<CtrlLine("RestController"), ClassLine("C", TRUE),
      MapLine("GET", pathM), MethodLine("f", TRUE)>>

\* a class without endpoints
PlainSource == <<ClassLine("D", TRUE), MethodLine("g", TRUE)>>

\* a controller whose last annotation annotates nothing: the Java parser
\* rejects the file
BrokenSource == ControllerSource \o <<MapLine("POST", pathM)>>

FileKinds ==
    {JavaFile(ControllerSource, TRUE, TRUE, j) : j \in JavaOutcomes}
    \cup {JavaFile(PlainSource, TRUE, TRUE, "json"),
          JavaFile(BrokenSource, TRUE, TRUE, "json"),
          JavaFile(ControllerSource, FALSE, FALSE, "json"),
          JavaFile(ControllerSource, TRUE, FALSE, "json")}

FileLists == SeqsUpTo(FileKinds, MaxFiles)

(***************************************************************************)
(* The project on disk and its fingerprint                                 *)
(***************************************************************************)
\* the paths at which the project may hold a .java entry, in glob order
FileIds == 1..MaxProjectFiles

\* what is at a path: nothing, or an entry that glob('**/*.java') matches.
\* statOk is FALSE for an entry fs.statSync fails on (a dangling link, a
\* file that went away after the scan).
Absent == [present |-> FALSE, statOk |-> FALSE, mtime |-> 0, source |-> "none"]
FileEntry(statOk, mtime, source) ==
    [present |-> TRUE, statOk |-> statOk, mtime |-> mtime, source |-> source]

DanglingEntry == FileEntry(FALSE, 0, "none")

Sources == {"controller", "plain"}

\* the lines of a file
sourceLines(src) == IF src = "controller" THEN ControllerSource ELSE PlainSource

\* stat.size in bytes: the byte lengths of the two sources, whose decimal
\* renderings have different widths
sourceSize(src) == IF src = "controller" THEN 10 ELSE 9

EntryKinds ==
    {FileEntry(TRUE, t, src) : t \in 1..MaxTime, src \in Sources} \cup {DanglingEntry}

\* this.projectPath, and the path of file id under it
projectPath == <<"/", "p">>
FileLetters == <<"A", "B", "C", "D">>
filePathOf(id) == projectPath \o <<"/", FileLetters[id]>>

\* Scanner.scanJavaFiles(projectPath).javaFiles: the ids of the entries
RECURSIVE scanFrom(_, _)
scanFrom(fs, id) ==
    IF id > MaxProjectFiles THEN <<>>
    ELSE (IF fs[id].present THEN <<id>> ELSE <<>>) \o scanFrom(fs, id + 1)

scanJavaFiles(fs) == scanFrom(fs, 1)

\* Number.prototype.toString(): the decimal digits
Digit(d) == <<"0", "1", "2", "3", "4", "5", "6", "7", "8", "9">>[d + 1]
RECURSIVE toString(_)
toString(n) == IF n < 10 THEN <<Digit(n)>> ELSE toString(n \div 10) \o <<Digit(n % 10)>>

\* Date.prototype.toISOString(): a rendering of fixed width
toISOString(t) == <<"T", Digit(t)>>

\* IndexManager.generateProjectHash: the strings fed to the md5 hasher one
\* after the other; md5 is taken to be free of collisions, so the digest is
\* the concatenation it was fed.  An entry that cannot be stat'ed is passed
\* over.
RECURSIVE hashFiles(_, _)
hashFiles(fs, ids) ==
    IF ids = <<>> THEN <<>>
    ELSE LET id == Head(ids) IN
         (IF fs[id].statOk
          THEN filePathOf(id) \o toISOString(fs[id].mtime)
                              \o toString(sourceSize(fs[id].source))
          ELSE <<>>)
         \o hashFiles(fs, Tail(ids))

generateProjectHash(fs) == projectPath \o hashFiles(fs, scanJavaFiles(fs))

(***************************************************************************)
(* The index store                                                         *)
(***************************************************************************)
\* a JavaScript null / SQL NULL in a string-valued field
NULL == "<null>"

\* the Endpoint value object with all its fields
FullEndpoint(method, path, className, methodName, filePath, lineNumber, parameters, moduleName) ==
    [method |-> method, path |-> path, className |-> className,
     methodName |-> methodName, filePath |-> filePath, lineNumber |-> lineNumber,
     parameters |-> parameters, moduleName |-> moduleName]

\* JSON.stringify of an array of strings: "[", the quoted elements separated
\* by ",", "]"
RECURSIVE stringifyElements(_)
stringifyElements(ps) ==
    IF ps = <<>> THEN <<>>
    ELSE <<"\"", Head(ps), "\"">>
         \o (IF Len(ps) > 1 THEN <<",">> ELSE <<>>) \o stringifyElements(Tail(ps))

JSON_stringify(ps) == <<"[">> \o stringifyElements(ps) \o <<"]">>

\* JSON.parse of such a text: the strings between the quotes
RECURSIVE parseElements(_, _)
parseElements(text, n) ==
    IF n > Len(text) THEN <<>>
    ELSE IF text[n] = "\"" THEN <<text[n + 1]>> \o parseElements(text, n + 3)
    ELSE parseElements(text, n + 1)

JSON_parse(text) == parseElements(text, 1)

\* counts[ep.method] = (counts[ep.method] || 0) + 1: the object's entries
\* in insertion order
countMethod(counts, method) ==
    IF \E n \in 1..Len(counts) : counts[n].method = method
    THEN [n \in 1..Len(counts) |->
            IF counts[n].method = method
            THEN [method |-> method, count |-> counts[n].count + 1]
            ELSE counts[n]]
    ELSE Append(counts, [method |-> method, count |-> 1])

\* TUI.calculateMethodCounts, SimpleUI.getMethodCounts, NativeUI.countMethods
RECURSIVE calculateMethodCounts(_)
calculateMethodCounts(eps) ==
    IF eps = <<>> THEN <<>>
    ELSE countMethod(calculateMethodCounts(SubSeq(eps, 1, Len(eps) - 1)),
                     eps[Len(eps)].method)

\* no index file
NoIndex == [exists |-> FALSE, metadata |-> <<>>, endpoints |-> <<>>]

\* a row of the endpoints table: the seven columns of the INSERT
EndpointRow(ep) ==
    [method |-> ep.method, path |-> ep.path, class_name |-> ep.className,
     method_name |-> ep.methodName, file_path |-> ep.filePath,
     line_number |-> ep.lineNumber, parameters |-> JSON_stringify(ep.parameters)]

\* IndexManager.saveIndex: both tables are emptied, then the metadata row
\* with the freshly computed hash and one row per endpoint are inserted
\* (generated_at and scan_duration_ms, which come from the clock, are left
\* out of the row)
saveIndex(fs, eps, stats) ==
    [exists   |-> TRUE,
     metadata |-> <<[version |-> "1.0", project_path |-> projectPath,
                     project_hash |-> generateProjectHash(fs),
                     total_endpoints |-> stats.totalEndpoints,
                     method_counts |-> stats.methodCounts,
                     total_java_files |-> stats.totalJavaFiles,
                     controller_files |-> stats.controllerFiles]>>,
     endpoints |-> [n \in 1..Len(eps) |-> EndpointRow(eps[n])]]

\* the null that loadIndexMetadata resolves with
NoMetadata ==
    [isNull |-> TRUE, version |-> NULL, projectPath |-> <<>>, projectHash |-> <<>>,
     statistics |-> [totalEndpoints |-> 0, methodCounts |-> <<>>, totalJavaFiles |-> 0,
                     controllerFiles |-> 0]]

\* IndexManager.loadIndexMetadata: null without an index file or a row
loadIndexMetadata(db) ==
    IF ~db.exists \/ db.metadata = <<>> THEN NoMetadata
    ELSE LET row == db.metadata[1]
         IN  [isNull |-> FALSE,
              version |-> row.version, projectPath |-> row.project_path,
              projectHash |-> row.project_hash,
              statistics |-> [totalEndpoints |-> row.total_endpoints,
                              methodCounts |-> row.method_counts,
                              totalJavaFiles |-> row.total_java_files,
                              controllerFiles |-> row.controller_files]]

\* IndexManager.isIndexValid
isIndexValid(fs, path, metadata) ==
    IF metadata.projectPath # path THEN FALSE
    ELSE generateProjectHash(fs) = metadata.projectHash

\* IndexManager.loadIndex, which callers use and the sources do not define:
\* the stored endpoint list in insertion order, or null without a snapshot.
\* The table has no column for moduleName, so the endpoint comes back with
\* the constructor's default.
loadIndex(db) ==
    IF ~db.exists THEN [isNull |-> TRUE, endpoints |-> <<>>]
    ELSE [isNull |-> FALSE,
          endpoints |->
             [n \in 1..Len(db.endpoints) |->
                LET row == db.endpoints[n]
                IN  FullEndpoint(row.method, row.path, row.class_name, row.method_name,
                                 row.file_path, row.line_number,
                                 JSON_parse(row.parameters), NULL)]]

(***************************************************************************)
(* Launches of the TUI over the project, and direct callers of the index   *)
(***************************************************************************)
\* str.startsWith(prefix)
startsWith(str, prefix) ==
    Len(prefix) <= Len(str) /\ SubSeq(str, 1, Len(prefix)) = prefix

\* what ModuleDetector.detectModules returns for a single-module project, as
\* Object.entries sees it, each value as startsWith coerces it to a string
moduleInfo ==
    <<[key |-> "isMultiModule", value |-> <<"false">>],
      [key |-> "modules",       value |-> <<"[object Object]">>],
      [key |-> "rootModule",    value |-> projectPath]>>

\* OptimizedAnalyzer.getModuleForFile: the key of the first entry whose
\* value the file path starts with
RECURSIVE getModuleForFile(_, _)
getModuleForFile(filePath, entries) ==
    IF entries = <<>> THEN ""
    ELSE IF startsWith(filePath, Head(entries).value) THEN Head(entries).key
    ELSE getModuleForFile(filePath, Tail(entries))

\* Analyzer.analyzeEndpoints(projectPath, moduleInfo) with its default
\* options: OptimizedAnalyzer.analyzeEndpoints scans and analyses in batches
analyzeEndpoints(fs) ==
    LET scan  == scanJavaFiles(fs)
        files == [n \in 1..Len(scan) |->
                    JavaFile(sourceLines(fs[scan[n]].source), fs[scan[n]].statOk,
                             fs[scan[n]].statOk, "json")]
        found == analyzeBatch(files, [k \in 1..Len(files) |-> NotCached], 0)
        eps   == [n \in 1..Len(found) |->
                    LET e    == found[n]
                        path == filePathOf(scan[e.filePath])
                    IN  FullEndpoint(e.method, e.path, e.className, e.methodName, path,
                                     e.lineNumber, <<>>,
                                     getModuleForFile(path, moduleInfo))]
    IN  [endpoints |-> eps, controllerCount |-> distinctClassNames(eps)]

\* TUI.loadFromCache
loadFromCache(db) == loadIndex(db).endpoints

NotLoaded == [done |-> FALSE, isNull |-> FALSE, endpoints |-> <<>>]

IndexInitWith(fsStates) ==
    /\ fsEntries \in fsStates
    /\ indexDb = NoIndex
    /\ fsAtSave = [id \in FileIds |-> Absent]
    /\ tuiEndpoints = <<>>
    /\ tuiInfo = "none"
    /\ analysed = <<>>
    /\ endpointList = <<>>
    /\ loadedList = NotLoaded

IndexIdle == IndexInitWith({[id \in FileIds |-> Absent]})

FsStates == [FileIds -> EntryKinds \cup {Absent}]

\* a .java file appears in the project
CreateFile ==
    /\ \E id \in FileIds, t \in 1..MaxTime, src \in Sources :
          /\ ~fsEntries[id].present
          /\ fsEntries' = [fsEntries EXCEPT ![id] = FileEntry(TRUE, t, src)]
    /\ UNCHANGED <<indexDb, fsAtSave, tuiEndpoints, tuiInfo, analysed, endpointList,
                   loadedList>>
    /\ UNCHANGED notIndexVars

\* a .java entry that cannot be stat'ed appears in the project
LinkDangling ==
    /\ \E id \in FileIds :
          /\ ~fsEntries[id].present
          /\ fsEntries' = [fsEntries EXCEPT ![id] = DanglingEntry]
    /\ UNCHANGED <<indexDb, fsAtSave, tuiEndpoints, tuiInfo, analysed, endpointList,
                   loadedList>>
    /\ UNCHANGED notIndexVars

\* a file is rewritten or touched
ModifyFile ==
    /\ \E id \in FileIds, t \in 1..MaxTime, src \in Sources :
          /\ fsEntries[id].present /\ fsEntries[id].statOk
          /\ FileEntry(TRUE, t, src) # fsEntries[id]
          /\ fsEntries' = [fsEntries EXCEPT ![id] = FileEntry(TRUE, t, src)]
    /\ UNCHANGED <<indexDb, fsAtSave, tuiEndpoints, tuiInfo, analysed, endpointList,
                   loadedList>>
    /\ UNCHANGED notIndexVars

\* an entry is deleted
RemoveFile ==
    /\ \E id \in FileIds :
          /\ fsEntries[id].present
          /\ fsEntries' = [fsEntries EXCEPT ![id] = Absent]
    /\ UNCHANGED <<indexDb, fsAtSave, tuiEndpoints, tuiInfo, analysed, endpointList,
                   loadedList>>
    /\ UNCHANGED notIndexVars

\* TUI.loadEndpoints of a fresh launch when the stored index is valid: the
\* list comes from the cache and no analysis is started
LoadEndpoints_fromCache ==
    /\ LET metadata == loadIndexMetadata(indexDb)
       IN  ~metadata.isNull /\ isIndexValid(fsEntries, projectPath, metadata)
    /\ tuiEndpoints' = loadFromCache(indexDb)
    /\ tuiInfo' = "cache"
    /\ UNCHANGED <<fsEntries, indexDb, fsAtSave, analysed, endpointList, loadedList>>
    /\ UNCHANGED notIndexVars

\* TUI.loadEndpoints of a fresh launch without a valid index, through
\* performBackgroundAnalysis: scan, analyse, save the index, show the list
LoadEndpoints_analyse ==
    /\ LET metadata == loadIndexMetadata(indexDb)
       IN  metadata.isNull \/ ~isIndexValid(fsEntries, projectPath, metadata)
    /\ IF scanJavaFiles(fsEntries) = <<>>
       THEN /\ tuiEndpoints' = <<>>
            /\ tuiInfo' = "nofiles"
            /\ UNCHANGED <<indexDb, fsAtSave, analysed>>
       ELSE \E r \in {analyzeEndpoints(fsEntries)} :
            LET stats == [totalEndpoints |-> Len(r.endpoints),
                          methodCounts |-> calculateMethodCounts(r.endpoints),
                          totalJavaFiles |-> Len(scanJavaFiles(fsEntries)),
                          controllerFiles |-> r.controllerCount]
            IN  /\ indexDb' = saveIndex(fsEntries, r.endpoints, stats)
                /\ fsAtSave' = fsEntries
                /\ tuiEndpoints' = r.endpoints
                /\ analysed' = r.endpoints
                /\ tuiInfo' = "analysis"
    /\ UNCHANGED <<fsEntries, endpointList, loadedList>>
    /\ UNCHANGED notIndexVars

\* the endpoints a caller may hand to saveIndex
SomeEndpoints ==
    {FullEndpoint("GET", pathM, "C", name, filePathOf(1), 3, ps, mod) :
        name \in {"f", ""},
        ps \in {<<>>, <<"a">>, <<"a", "b">>},
        mod \in {NULL, "", "rootModule"}}

EndpointLists == SeqsUpTo(SomeEndpoints, MaxEndpoints)

\* a caller starts over: IndexManager.clearIndex(projectPath) removes the
\* index file
clearIndex(db) == NoIndex

CallClearIndex ==
    /\ indexDb.exists
    /\ indexDb' = clearIndex(indexDb)
    /\ fsAtSave' = [id \in FileIds |-> Absent]
    /\ endpointList' = <<>>
    /\ loadedList' = NotLoaded
    /\ UNCHANGED <<fsEntries, tuiEndpoints, tuiInfo, analysed>>
    /\ UNCHANGED notIndexVars

\* the caller saves a list after clearing:
\* IndexManager.saveIndex(projectPath, endpoints, stats)
CallSaveIndex ==
    /\ ~indexDb.exists
    /\ \E L \in EndpointLists :
          /\ endpointList' = L
          /\ indexDb' = saveIndex(fsEntries, L,
                                  [totalEndpoints |-> Len(L), methodCounts |-> <<>>,
                                   totalJavaFiles |-> 0,
                                   controllerFiles |-> distinctClassNames(L)])
    /\ fsAtSave' = fsEntries
    /\ loadedList' = NotLoaded
    /\ UNCHANGED <<fsEntries, tuiEndpoints, tuiInfo, analysed>>
    /\ UNCHANGED notIndexVars

\* the caller loads it back: IndexManager.loadIndex(projectPath)
CallLoadIndex ==
    /\ indexDb.exists /\ ~loadedList.done
    /\ loadedList' = [done |-> TRUE, isNull |-> loadIndex(indexDb).isNull,
                      endpoints |-> loadIndex(indexDb).endpoints]
    /\ UNCHANGED <<fsEntries, indexDb, fsAtSave, tuiEndpoints, tuiInfo, analysed,
                   endpointList>>
    /\ UNCHANGED notIndexVars

(***************************************************************************)
(* IndexManager.saveIndex statement by statement                           *)
(***************************************************************************)
\* the callers of saveIndex
SaveCallers ==
    {"testFullFlow", "SimpleUI.scanProject", "NativeUI.scanProject",
     "TUI.performBackgroundAnalysis"}

\* the stats object each caller builds for the list it saves
callerStats(caller, eps, nJavaFiles, nControllerFiles) ==
    IF caller = "testFullFlow"
    THEN [totalEndpoints |-> Len(eps), methodCounts |-> <<>>, totalJavaFiles |-> 0,
          controllerFiles |-> distinctClassNames(eps)]
    ELSE [totalEndpoints |-> Len(eps), methodCounts |-> calculateMethodCounts(eps),
          totalJavaFiles |-> nJavaFiles,
          controllerFiles |-> IF caller = "NativeUI.scanProject"
                              THEN nControllerFiles ELSE distinctClassNames(eps)]

\* the number of scanned files that hold a controller
controllerFileCount(fs) ==
    Cardinality({id \in FileIds : fs[id].present /\ fs[id].source = "controller"})

\* the stats of the call in progress
saveStats ==
    callerStats(saveCaller, saveList, Len(scanJavaFiles(fsEntries)),
                controllerFileCount(fsEntries))

\* the endpoint lists the callers hand over
SaveEndpoints ==
    {FullEndpoint(m, pathM, "C", "f", filePathOf(1), 3, <<>>, NULL) : m \in {"GET", "POST"}}

SaveLists == SeqsUpTo(SaveEndpoints, MaxEndpoints)

SaveIdle ==
    /\ saveCaller = "none"
    /\ saveList = <<>>
    /\ savePc = "idle"
    /\ saveAt = 0
    /\ prevDb = NoIndex
    /\ saveFailed = FALSE


\* the project the saves are made for
SaveFsStates ==
    {[id \in FileIds |-> IF id = 1 THEN FileEntry(TRUE, 1, "controller") ELSE Absent]}

\* what a save leaves alone
notSaveVars ==
    <<pathVars, scanVars, runVars, fsEntries, fsAtSave, tuiEndpoints, tuiInfo, analysed,
      endpointList, loadedList, hashVars, forced, tailVars>>

\* createTables: CREATE TABLE IF NOT EXISTS on the opened database file
createTables(db) ==
    IF db.exists THEN db ELSE [exists |-> TRUE, metadata |-> <<>>, endpoints |-> <<>>]

\* saveIndex up to createTables, called by a process that is not in a save
SaveIndex_open ==
    /\ savePc \in {"idle", "resolved", "crashed"}
    /\ \E caller \in SaveCallers, L \in SaveLists :
          /\ caller = "NativeUI.scanProject" => Len(L) > 0
          /\ saveCaller' = caller
          /\ saveList' = L
    /\ prevDb' = indexDb
    /\ indexDb' = createTables(indexDb)
    /\ savePc' = "deleteMetadata"
    /\ saveAt' = 0
    /\ saveFailed' = FALSE
    /\ UNCHANGED notSaveVars

\* db.run('DELETE FROM metadata')
SaveIndex_deleteMetadata ==
    /\ savePc = "deleteMetadata"
    /\ indexDb' = [indexDb EXCEPT !.metadata = <<>>]
    /\ savePc' = "deleteEndpoints"
    /\ UNCHANGED <<saveCaller, saveList, saveAt, prevDb, saveFailed>>
    /\ UNCHANGED notSaveVars

\* db.run('DELETE FROM endpoints')
SaveIndex_deleteEndpoints ==
    /\ savePc = "deleteEndpoints"
    /\ indexDb' = [indexDb EXCEPT !.endpoints = <<>>]
    /\ savePc' = "insertMetadata"
    /\ UNCHANGED <<saveCaller, saveList, saveAt, prevDb, saveFailed>>
    /\ UNCHANGED notSaveVars

\* insertMetadata.run(...)
SaveIndex_insertMetadata ==
    /\ savePc = "insertMetadata"
    /\ indexDb' = [indexDb EXCEPT
                     !.metadata = @ \o saveIndex(fsEntries, saveList, saveStats).metadata]
    /\ savePc' = IF Len(saveList) = 0 THEN "close" ELSE "insertEndpoint"
    /\ UNCHANGED <<saveCaller, saveList, saveAt, prevDb, saveFailed>>
    /\ UNCHANGED notSaveVars

\* insertEndpoint.run(...) for the next endpoint of the list
SaveIndex_insertEndpoint ==
    /\ savePc = "insertEndpoint"
    /\ indexDb' = [indexDb EXCEPT
                     !.endpoints = Append(@, EndpointRow(saveList[saveAt + 1]))]
    /\ saveAt' = saveAt + 1
    /\ savePc' = IF saveAt + 1 = Len(saveList) THEN "close" ELSE "insertEndpoint"
    /\ UNCHANGED <<saveCaller, saveList, prevDb, saveFailed>>
    /\ UNCHANGED notSaveVars

\* db.close, whose callback resolves the promise
SaveIndex_close ==
    /\ savePc = "close"
    /\ savePc' = "resolved"
    /\ UNCHANGED <<indexDb, saveCaller, saveList, saveAt, prevDb, saveFailed>>
    /\ UNCHANGED notSaveVars

\* the statements that are run without a callback
SaveStatements == {"deleteMetadata", "deleteEndpoints", "insertMetadata", "insertEndpoint"}

\* a statement fails (disk full, database locked) or the process is killed:
\* the statement has no effect; sqlite3 emits 'error' on an object without a
\* listener, which ends the process, and the promise is never settled
SaveIndex_statementFails ==
    /\ savePc \in SaveStatements
    /\ savePc' = "crashed"
    /\ saveFailed' = TRUE
    /\ UNCHANGED <<indexDb, saveCaller, saveList, saveAt, prevDb>>
    /\ UNCHANGED notSaveVars

(***************************************************************************)
(* Fingerprints over a scan in any order, and validity checks              *)
(***************************************************************************)
\* the orders in which glob may return the entries of the project
scanOrdersOf(fs) ==
    LET found == {id \in FileIds : fs[id].present}
    IN  {s \in [1..Cardinality(found) -> found] :
            \A m, n \in 1..Cardinality(found) : m # n => s[m] # s[n]}

\* generateProjectHash when the scan returned javaFiles in the given order
generateProjectHashOver(fs, order) == projectPath \o hashFiles(fs, order)

\* generateProjectHash as isIndexValid awaits it: a failing scan rejects
\* with "生成项目哈希失败"
generateProjectHash_await(fs, scanOk) ==
    IF scanOk THEN [threw |-> FALSE, hash |-> generateProjectHash(fs)]
    ELSE [threw |-> TRUE, hash |-> <<>>]

\* IndexManager.isIndexValid with its try/catch around the recomputation
isIndexValid_call(fs, path, metadata, scanOk) ==
    IF metadata.projectPath # path THEN [raised |-> FALSE, value |-> FALSE]
    ELSE LET currentHash == generateProjectHash_await(fs, scanOk)
         IN  IF currentHash.threw THEN [raised |-> FALSE, value |-> FALSE]
             ELSE [raised |-> FALSE, value |-> currentHash.hash = metadata.projectHash]

NotChecked ==
    [done |-> FALSE, scanFailed |-> FALSE, statFailed |-> FALSE, raised |-> FALSE,
     value |-> FALSE]

HashIdle ==
    /\ scanOrders = <<>>
    /\ hashes = <<>>
    /\ validity = NotChecked


\* generateProjectHash computed twice over the same project, the scan
\* returning the files in some order each time
GenerateProjectHash_twice ==
    /\ \E first \in scanOrdersOf(fsEntries), second \in scanOrdersOf(fsEntries) :
          /\ scanOrders' = <<first, second>>
          /\ hashes' = <<generateProjectHashOver(fsEntries, first),
                         generateProjectHashOver(fsEntries, second)>>
    /\ UNCHANGED validity
    /\ UNCHANGED <<pathVars, scanVars, runVars, indexVars, saveVars, forced, tailVars>>

\* a caller that found metadata asks isIndexValid(projectPath, metadata)
IsIndexValid_check ==
    /\ ~loadIndexMetadata(indexDb).isNull
    /\ \E scanOk \in BOOLEAN :
          \E r \in {isIndexValid_call(fsEntries, projectPath, loadIndexMetadata(indexDb),
                                      scanOk)} :
             validity' =
                [done |-> TRUE, scanFailed |-> ~scanOk,
                 statFailed |-> scanOk /\ \E id \in FileIds :
                                   fsEntries[id].present /\ ~fsEntries[id].statOk,
                 raised |-> r.raised, value |-> r.value]
    /\ UNCHANGED <<scanOrders, hashes>>
    /\ UNCHANGED <<pathVars, scanVars, runVars, indexVars, saveVars, forced, tailVars>>

(***************************************************************************)
(* Force rescans: the -f flag and the 'r' key                              *)
(***************************************************************************)
\* IndexManager.clearIndex: nothing to do without an index file; unlinkSync
\* may fail, and then clearIndex throws and the file stays
clearIndex_try(db, unlinkOk) ==
    IF ~db.exists THEN [threw |-> FALSE, db |-> db]
    ELSE IF unlinkOk THEN [threw |-> FALSE, db |-> clearIndex(db)]
    ELSE [threw |-> TRUE, db |-> db]

\* what performBackgroundAnalysis shows and saves for the analysis result r
analysisLaunch(fs, r) ==
    [info |-> "analysis", endpoints |-> r.endpoints,
     db |-> saveIndex(fs, r.endpoints,
                      [totalEndpoints |-> Len(r.endpoints),
                       methodCounts |-> calculateMethodCounts(r.endpoints),
                       totalJavaFiles |-> Len(scanJavaFiles(fs)),
                       controllerFiles |-> r.controllerCount])]

\* TUI.loadEndpoints over the index db, the background analysis included
loadEndpoints(fs, db) ==
    IF ~loadIndexMetadata(db).isNull /\ isIndexValid(fs, projectPath, loadIndexMetadata(db))
    THEN [info |-> "cache", endpoints |-> loadFromCache(db), db |-> db]
    ELSE IF scanJavaFiles(fs) = <<>>
         THEN [info |-> "nofiles", endpoints |-> <<>>, db |-> db]
         ELSE analysisLaunch(fs, analyzeEndpoints(fs))

NotForced == [via |-> "none", threw |-> FALSE, info |-> "none", snapshot |-> FALSE]

ForceIdle == forced = NotForced

CacheReadIdle == cacheReadFailed = FALSE

\* TUI.loadEndpoints over a valid index whose read fails (IndexManager.loadIndex
\* rejects): loadFromCache catches the error, logs a warning and returns [],
\* which loadEndpoints shows as the loaded cache
LoadEndpoints_cacheReadFails ==
    /\ savePc \in {"idle", "resolved"}
    /\ ~loadIndexMetadata(indexDb).isNull
    /\ isIndexValid(fsEntries, projectPath, loadIndexMetadata(indexDb))
    /\ cacheReadFailed' = TRUE
    /\ tuiEndpoints' = <<>>
    /\ tuiInfo' = "cache"
    /\ UNCHANGED <<fsEntries, indexDb, fsAtSave, analysed, endpointList, loadedList>>
    /\ UNCHANGED <<pathVars, scanVars, runVars, saveVars, hashVars, forced, queueVars, liveVars>>
    /\ UNCHANGED moreVars

\* javacli -f: program.action clears the index, only warns when that fails,
\* and starts the TUI
ForceFlag_launch ==
    /\ \E unlinkOk \in BOOLEAN :
          \E launch \in {loadEndpoints(fsEntries, clearIndex_try(indexDb, unlinkOk).db)} :
             /\ forced' = [via |-> "-f", threw |-> clearIndex_try(indexDb, unlinkOk).threw,
                           info |-> launch.info,
                           snapshot |-> ~loadIndexMetadata(launch.db).isNull]
             /\ indexDb' = launch.db
             /\ tuiEndpoints' = launch.endpoints
             /\ tuiInfo' = launch.info
             /\ IF launch.info = "analysis"
                THEN fsAtSave' = fsEntries /\ analysed' = launch.endpoints
                ELSE UNCHANGED <<fsAtSave, analysed>>
    /\ UNCHANGED <<fsEntries, endpointList, loadedList>>
    /\ UNCHANGED <<pathVars, scanVars, runVars, saveVars, hashVars, tailVars>>

\* the 'r' key: TUI.rescan clears the index and loads again; when clearIndex
\* throws it shows the error and loads nothing
Rescan_key ==
    /\ tuiInfo # "none"
    /\ \E unlinkOk \in BOOLEAN :
          IF clearIndex_try(indexDb, unlinkOk).threw
          THEN /\ forced' = [via |-> "r", threw |-> TRUE, info |-> "error",
                             snapshot |-> ~loadIndexMetadata(indexDb).isNull]
               /\ UNCHANGED <<indexDb, tuiEndpoints, tuiInfo, fsAtSave, analysed>>
          ELSE \E launch \in {loadEndpoints(fsEntries, clearIndex_try(indexDb, unlinkOk).db)} :
                  /\ forced' = [via |-> "r", threw |-> FALSE, info |-> launch.info,
                                snapshot |-> ~loadIndexMetadata(launch.db).isNull]
                  /\ indexDb' = launch.db
                  /\ tuiEndpoints' = launch.endpoints
                  /\ tuiInfo' = launch.info
                  /\ IF launch.info = "analysis"
                     THEN fsAtSave' = fsEntries /\ analysed' = launch.endpoints
                     ELSE UNCHANGED <<fsAtSave, analysed>>
    /\ UNCHANGED <<fsEntries, endpointList, loadedList>>
    /\ UNCHANGED <<pathVars, scanVars, runVars, saveVars, hashVars, tailVars>>

(***************************************************************************)
(* The task queue: AsyncAnalyzer.analyzeEndpointsAsync and the queued      *)
(* OptimizedAnalyzer.analyzeEndpoints, one step per awaited statement      *)
(***************************************************************************)
QueueAnalyzers == {"AsyncAnalyzer", "OptimizedAnalyzer"}

\* const tasks = await this.getPendingTasks(5)
processTaskQueueLimit == 5

\* a controller with one endpoint, a class without endpoints, and a file
\* that can be read neither by the Java process nor by the fallback
QueueFileKinds ==
    {JavaFile(ControllerSource, TRUE, TRUE, "json"),
     JavaFile(PlainSource, TRUE, TRUE, "json"),
     JavaFile(ControllerSource, FALSE, FALSE, "json")}

\* the scanned files: the files of one kind follow one another, in either
\* order of the kinds
Repeat(f, n) == [k \in 1..n |-> f]

Reversed(s) == [k \in 1..Len(s) |-> s[Len(s) + 1 - k]]

QueueFilesByKind ==
    {Repeat(JavaFile(ControllerSource, TRUE, TRUE, "json"), a)
        \o Repeat(JavaFile(PlainSource, TRUE, TRUE, "json"), b)
        \o Repeat(JavaFile(ControllerSource, FALSE, FALSE, "json"), c) :
     <<a, b, c>> \in {n \in (0..MaxQueueFiles) \X (0..MaxQueueFiles) \X (0..MaxQueueFiles) :
                        n[1] + n[2] + n[3] <= MaxQueueFiles}}

QueueFileLists == QueueFilesByKind \cup {Reversed(s) : s \in QueueFilesByKind}

\* a path that no longer holds a file
LostPath == MaxQueueFiles + 1

MissingFile == JavaFile(<<>>, FALSE, FALSE, "json")

fileAt(files, p) == IF p \in DOMAIN files THEN files[p] ELSE MissingFile

TaskRow(p, status) == [path |-> p, status |-> status]

RowGroup(p, copy, eps) == [path |-> p, copy |-> copy, endpoints |-> inFile(eps, p)]

\* what an earlier run that was killed in its batch left in the database:
\* a completed task with its endpoint rows for a file that is gone since,
\* and a task in 'processing' for the first file
CrashedRunTasks == <<TaskRow(LostPath, "completed"), TaskRow(1, "processing")>>
CrashedRunRows == {RowGroup(LostPath, 1, parseJavaFile(ControllerSource))}

\* clearOldData: DELETE FROM analysis_tasks; DELETE FROM <endpoints table>
clearOldData_kept(tasks, rows) == [tasks |-> tasks, rows |-> rows]
clearOldData(tasks, rows) == [tasks |-> <<>>, rows |-> {}]

\* INSERT OR IGNORE INTO analysis_tasks (file_path, ...): file_path is UNIQUE
insertOrIgnore(tasks, p) ==
    IF \E k \in DOMAIN tasks : tasks[k].path = p
    THEN tasks
    ELSE Append(tasks, TaskRow(p, "pending"))

\* enqueueFiles: one INSERT OR IGNORE per scanned file, paths p..n
RECURSIVE enqueueFiles(_, _, _)
enqueueFiles(tasks, p, n) ==
    IF p > n THEN tasks ELSE enqueueFiles(insertOrIgnore(tasks, p), p + 1, n)

\* getPendingTasks: WHERE status = 'pending' ORDER BY id LIMIT limit
Queue_getPendingTasks_open(tasks, limit) ==
    LET pending == {k \in DOMAIN tasks : tasks[k].status \in {"pending", "processing"}}
    IN  {k \in pending : Cardinality({j \in pending : j < k}) < limit}
Queue_getPendingTasks(tasks, limit) ==
    LET pending == {k \in DOMAIN tasks : tasks[k].status = "pending"}
    IN  {k \in pending : Cardinality({j \in pending : j < k}) < limit}

\* updateTaskStatus: UPDATE analysis_tasks SET status = ? WHERE id = ?
updateTaskStatus(tasks, k, status) == [tasks EXCEPT ![k].status = status]

\* saveAnalysisResult: one INSERT per endpoint, none for an empty list
saveAnalysisResult(rows, p, eps) ==
    IF eps = <<>> THEN rows
    ELSE rows \cup {RowGroup(p, 1 + Cardinality({g \in rows : g.path = p}), eps)}

\* getAllResults: every endpoint row of the table
RECURSIVE getAllResults(_)
getAllResults(rows) ==
    IF rows = {} THEN <<>>
    ELSE LET g == CHOOSE m \in rows :
                     \A o \in rows : m.path < o.path \/ (m.path = o.path /\ m.copy <= o.copy)
         IN  g.endpoints \o getAllResults(rows \ {g})

\* the queued OptimizedAnalyzer.analyzeJavaFileAsync: rejects on a non-zero
\* exit; lines that are not JSON are dropped
Queue_analyzeJavaFileAsync(f) ==
    LET p == javaProcess(f, f.readable) IN
    IF p.code # 0 THEN Throw
    ELSE IF p.stdout = "json"
         THEN Ok(SelectSeq(p.endpoints, LAMBDA ep : ep.method # "" /\ ep.path # <<>>),
                 FALSE, "ast")
         ELSE Ok(<<>>, FALSE, "ast")

\* the queued OptimizedAnalyzer.analyzeJavaFileFallbackAsync: a read error
\* rejects
Queue_analyzeJavaFileFallbackAsync(f) ==
    IF f.stillReadable
    THEN Ok(parseEndpointsWithRegex(f.content), FALSE, "regex")
    ELSE Throw

\* the try / catch / try of the task callback of processTaskQueue
Queue_analyzeTask(f) ==
    LET r == Queue_analyzeJavaFileAsync(f) IN
    IF r.status = "throw" THEN Queue_analyzeJavaFileFallbackAsync(f) ELSE r

\* what the analysis of a task's file comes to under the analyzer
taskAnalysis(analyzer, f) ==
    IF analyzer = "AsyncAnalyzer" THEN analyzeSingleFile(f) ELSE Queue_analyzeTask(f)

QueueIdle ==
    /\ qAnalyzer = "none"
    /\ qFiles = <<>>
    /\ qLimit = 0
    /\ qEarlier = <<>>
    /\ qPc = "idle"
    /\ qTasks = <<>>
    /\ qRows = {}
    /\ qTaskPc = <<>>
    /\ qResult = <<>>
    /\ qPicks = <<>>

\* a run starts over a fresh database or over what a killed run left
QueueInit ==
    /\ qAnalyzer \in QueueAnalyzers
    /\ qFiles \in QueueFileLists
    /\ qLimit \in IF qAnalyzer = "AsyncAnalyzer"
                  THEN {Min2(8, Max2(2, AsyncAnalyzer_maxWorkers(c) * 2)) : c \in CpuCounts}
                  ELSE {processTaskQueueLimit}
    /\ qPc = "start"
    /\ \/ qTasks = <<>> /\ qRows = {}
       \/ qTasks = CrashedRunTasks /\ qRows = CrashedRunRows
    /\ qEarlier = qTasks
    /\ qTaskPc = <<>>
    /\ qResult = <<>>
    /\ qPicks = <<>>

\* os.cpus().length of any host
HostCpuCounts == 1..MaxCpus

\* const concurrency = Math.min(8, Math.max(2, this.maxWorkers * 2))
AsyncAnalyzer_concurrency(workers) == Min2(8, Max2(2, workers * 2))

\* a run over a fresh database and a project of controller files only, on
\* any host
QueueLoadInit ==
    /\ qAnalyzer \in QueueAnalyzers
    /\ qFiles \in {Repeat(JavaFile(ControllerSource, TRUE, TRUE, "json"), n) :
                     n \in 0..MaxDrainFiles}
    /\ qLimit \in IF qAnalyzer = "AsyncAnalyzer"
                  THEN {AsyncAnalyzer_concurrency(AsyncAnalyzer_maxWorkers(c)) :
                          c \in HostCpuCounts}
                  ELSE {processTaskQueueLimit}
    /\ qPc = "start"
    /\ qTasks = <<>>
    /\ qRows = {}
    /\ qEarlier = <<>>
    /\ qTaskPc = <<>>
    /\ qResult = <<>>
    /\ qPicks = <<>>

notQueueVars ==
    <<pathVars, scanVars, runVars, indexVars, saveVars, hashVars, forced, cacheReadFailed, liveVars,
      moreVars>>

\* no .java file: OptimizedAnalyzer.analyzeEndpoints returns before it opens
\* the database, AsyncAnalyzer.analyzeEndpointsAsync after clearOldData
Queue_noFiles ==
    /\ qFiles = <<>>
    /\ \/ qAnalyzer = "OptimizedAnalyzer" /\ qPc = "start"
       \/ qAnalyzer = "AsyncAnalyzer" /\ qPc = "cleared"
    /\ qPc' = "returned"
    /\ qResult' = <<>>
    /\ UNCHANGED <<qAnalyzer, qFiles, qLimit, qEarlier, qTasks, qRows, qTaskPc, qPicks>>
    /\ UNCHANGED notQueueVars

\* await this.clearOldData(...)
Queue_clearOldData ==
    /\ qPc = "start"
    /\ qAnalyzer = "AsyncAnalyzer" \/ qFiles # <<>>
    /\ qTasks' = clearOldData(qTasks, qRows).tasks
    /\ qRows' = clearOldData(qTasks, qRows).rows
    /\ qPc' = "cleared"
    /\ UNCHANGED <<qAnalyzer, qFiles, qLimit, qEarlier, qTaskPc, qResult, qPicks>>
    /\ UNCHANGED notQueueVars

\* await this.enqueueFiles(...)
Queue_enqueueFiles ==
    /\ qPc = "cleared"
    /\ qFiles # <<>>
    /\ qTasks' = enqueueFiles(qTasks, 1, Len(qFiles))
    /\ qPicks' = [k \in DOMAIN qTasks' |-> 0]
    /\ qPc' = "fetch"
    /\ UNCHANGED <<qAnalyzer, qFiles, qLimit, qEarlier, qRows, qTaskPc, qResult>>
    /\ UNCHANGED notQueueVars

\* the head of the while loop with pending tasks: every task of the batch
\* gets its callback
Queue_fetchBatch ==
    /\ qPc = "fetch"
    /\ Queue_getPendingTasks(qTasks, qLimit) # {}
    /\ qTaskPc' = [k \in Queue_getPendingTasks(qTasks, qLimit) |-> "picked"]
    /\ qPicks' = [k \in DOMAIN qPicks |->
                    IF k \in Queue_getPendingTasks(qTasks, qLimit)
                    THEN Min2(qPicks[k] + 1, 2) ELSE qPicks[k]]
    /\ qPc' = "batch"
    /\ UNCHANGED <<qAnalyzer, qFiles, qLimit, qEarlier, qTasks, qRows, qResult>>
    /\ UNCHANGED notQueueVars

\* await this.updateTaskStatus(task.id, 'processing')
Task_markProcessing ==
    /\ qPc = "batch"
    /\ \E k \in DOMAIN qTaskPc :
          /\ qTaskPc[k] = "picked"
          /\ qTasks' = updateTaskStatus(qTasks, k, "processing")
          /\ qTaskPc' = [qTaskPc EXCEPT ![k] = "processing"]
    /\ UNCHANGED <<qAnalyzer, qFiles, qLimit, qEarlier, qPc, qRows, qResult, qPicks>>
    /\ UNCHANGED notQueueVars

\* AsyncAnalyzer.processTasksAsync after the analysis of the task's file:
\* endpoints are saved and returned; without endpoints the task is marked
\* completed; a rejection marks it failed
Task_finishAsync ==
    /\ qPc = "batch" /\ qAnalyzer = "AsyncAnalyzer"
    /\ \E k \in DOMAIN qTaskPc :
          /\ qTaskPc[k] = "processing"
          /\ \E r \in {taskAnalysis(qAnalyzer, fileAt(qFiles, qTasks[k].path))} :
                IF r.status = "throw"
                THEN /\ qTasks' = updateTaskStatus(qTasks, k, "failed")
                     /\ UNCHANGED qRows
                ELSE IF Len(r.endpoints) > 0
                     THEN /\ qRows' = saveAnalysisResult(qRows, qTasks[k].path, r.endpoints)
                          /\ UNCHANGED qTasks
                     ELSE /\ qTasks' = updateTaskStatus(qTasks, k, "completed")
                          /\ UNCHANGED qRows
          /\ qTaskPc' = [qTaskPc EXCEPT ![k] = "done"]
    /\ UNCHANGED <<qAnalyzer, qFiles, qLimit, qEarlier, qPc, qResult, qPicks>>
    /\ UNCHANGED notQueueVars

\* OptimizedAnalyzer.processTaskQueue after the analysis of the task's file:
\* the endpoints are saved, or the task is marked failed when the Java
\* process and the fallback both reject
Task_saveOptimized ==
    /\ qPc = "batch" /\ qAnalyzer = "OptimizedAnalyzer"
    /\ \E k \in DOMAIN qTaskPc :
          /\ qTaskPc[k] = "processing"
          /\ \E r \in {taskAnalysis(qAnalyzer, fileAt(qFiles, qTasks[k].path))} :
                IF r.status = "throw"
                THEN /\ qTasks' = updateTaskStatus(qTasks, k, "failed")
                     /\ qTaskPc' = [qTaskPc EXCEPT ![k] = "done"]
                     /\ UNCHANGED qRows
                ELSE /\ qRows' = saveAnalysisResult(qRows, qTasks[k].path, r.endpoints)
                     /\ qTaskPc' = [qTaskPc EXCEPT ![k] = "saved"]
                     /\ UNCHANGED qTasks
    /\ UNCHANGED <<qAnalyzer, qFiles, qLimit, qEarlier, qPc, qResult, qPicks>>
    /\ UNCHANGED notQueueVars

\* await this.updateTaskStatus(task.id, 'completed', ...) after the save
Task_completeOptimized ==
    /\ qPc = "batch" /\ qAnalyzer = "OptimizedAnalyzer"
    /\ \E k \in DOMAIN qTaskPc :
          /\ qTaskPc[k] = "saved"
          /\ qTasks' = updateTaskStatus(qTasks, k, "completed")
          /\ qTaskPc' = [qTaskPc EXCEPT ![k] = "done"]
    /\ UNCHANGED <<qAnalyzer, qFiles, qLimit, qEarlier, qPc, qRows, qResult, qPicks>>
    /\ UNCHANGED notQueueVars

\* what the callback of task k hands to Promise.allSettled
taskValue(analyzer, files, tasks, k) ==
    LET r == taskAnalysis(analyzer, fileAt(files, tasks[k].path))
    IN  IF r.status = "throw" THEN <<>> ELSE inFile(r.endpoints, tasks[k].path)

\* results.push(...result.value) over the first n callbacks of the batch in
\* task order; a rejected callback contributes nothing
RECURSIVE settledValues(_, _, _, _, _)
settledValues(analyzer, files, tasks, pcs, n) ==
    IF n = 0 THEN <<>>
    ELSE settledValues(analyzer, files, tasks, pcs, n - 1) \o
         (IF pcs[ascending(DOMAIN pcs)[n]] = "rejected"
          THEN <<>>
          ELSE taskValue(analyzer, files, tasks, ascending(DOMAIN pcs)[n]))

\* every callback of the batch has settled: AsyncAnalyzer pushes the values
\* of the fulfilled ones in task order, and the loop goes round; Promise.all
\* of processTaskQueue has rejected when a callback rejected
Queue_batchSettled ==
    /\ qPc = "batch"
    /\ \A k \in DOMAIN qTaskPc : qTaskPc[k] \in {"done", "rejected"}
    /\ ~qFault.threw
    /\ qResult' = IF qAnalyzer = "AsyncAnalyzer"
                  THEN qResult \o settledValues(qAnalyzer, qFiles, qTasks, qTaskPc,
                                                Cardinality(DOMAIN qTaskPc))
                  ELSE qResult
    /\ qTaskPc' = <<>>
    /\ qPc' = "fetch"
    /\ UNCHANGED <<qAnalyzer, qFiles, qLimit, qEarlier, qTasks, qRows, qPicks>>
    /\ UNCHANGED notQueueVars

\* no pending task: the drain returns; OptimizedAnalyzer reads the result
\* from the endpoint table, AsyncAnalyzer returns what it collected
Queue_return ==
    /\ qPc = "fetch"
    /\ Queue_getPendingTasks(qTasks, qLimit) = {}
    /\ qResult' = IF qAnalyzer = "OptimizedAnalyzer" THEN getAllResults(qRows) ELSE qResult
    /\ qPc' = "returned"
    /\ UNCHANGED <<qAnalyzer, qFiles, qLimit, qEarlier, qTasks, qRows, qTaskPc, qPicks>>
    /\ UNCHANGED notQueueVars

(***************************************************************************)
(* The TUI: start-up, the 'r' key and the background analyses              *)
(***************************************************************************)
LiveIdle ==
    /\ started = FALSE
    /\ isDetailMode = FALSE
    /\ liveRuns = <<>>

notLiveVars ==
    <<pathVars, scanVars, runVars, saveVars, hashVars, forced, cacheReadFailed, queueVars,
      moreVars>>

\* a sequence without its element at position n
without(s, n) == SubSeq(s, 1, n - 1) \o SubSeq(s, n + 1, Len(s))

\* TUI.loadEndpoints as called by start and rescan over the index db: a valid
\* cache is shown; otherwise performBackgroundAnalysis is called without await
Tui_loadEndpoints(db) ==
    /\ indexDb' = db
    /\ IF ~loadIndexMetadata(db).isNull /\ isIndexValid(fsEntries, projectPath, loadIndexMetadata(db))
       THEN /\ tuiEndpoints' = loadFromCache(db)
            /\ tuiInfo' = "cache"
            /\ UNCHANGED liveRuns
       ELSE /\ liveRuns' = Append(liveRuns, "scanning")
            /\ tuiInfo' = "analysing"
            /\ UNCHANGED tuiEndpoints

\* TUI.start
Tui_start ==
    /\ ~started
    /\ started' = TRUE
    /\ Tui_loadEndpoints(indexDb)
    /\ UNCHANGED <<isDetailMode, fsEntries, fsAtSave, analysed, endpointList, loadedList>>
    /\ UNCHANGED notLiveVars

\* the 'r' key: TUI.rescan outside the detail view; a failing clearIndex
\* ends in showError
Key_r ==
    /\ started /\ ~isDetailMode
    /\ Len(liveRuns) < MaxLiveRuns
    /\ \E unlinkOk \in BOOLEAN :
          IF clearIndex_try(indexDb, unlinkOk).threw
          THEN UNCHANGED <<indexDb, tuiEndpoints, tuiInfo, liveRuns>>
          ELSE Tui_loadEndpoints(clearIndex_try(indexDb, unlinkOk).db)
    /\ UNCHANGED <<started, isDetailMode, fsEntries, fsAtSave, analysed, endpointList, loadedList>>
    /\ UNCHANGED notLiveVars

\* enter on a listed endpoint: showDetail
Key_enter ==
    /\ started /\ ~isDetailMode
    /\ tuiEndpoints # <<>>
    /\ isDetailMode' = TRUE
    /\ UNCHANGED <<started, liveRuns, indexVars>>
    /\ UNCHANGED notLiveVars

\* escape in the detail view: hideDetail
Key_escape ==
    /\ isDetailMode
    /\ isDetailMode' = FALSE
    /\ UNCHANGED <<started, liveRuns, indexVars>>
    /\ UNCHANGED notLiveVars

\* performBackgroundAnalysis up to the scan: without .java files it ends
BackgroundAnalysis_scan ==
    /\ \E n \in DOMAIN liveRuns :
          /\ liveRuns[n] = "scanning"
          /\ IF scanJavaFiles(fsEntries) = <<>>
             THEN liveRuns' = without(liveRuns, n) /\ tuiInfo' = "nofiles"
             ELSE liveRuns' = [liveRuns EXCEPT ![n] = "analysing"] /\ UNCHANGED tuiInfo
    /\ UNCHANGED <<started, isDetailMode, fsEntries, indexDb, fsAtSave, tuiEndpoints, analysed>>
    /\ UNCHANGED <<endpointList, loadedList>>
    /\ UNCHANGED notLiveVars

\* await Analyzer.analyzeEndpoints(...)
BackgroundAnalysis_analyse ==
    /\ \E n \in DOMAIN liveRuns :
          /\ liveRuns[n] = "analysing"
          /\ liveRuns' = [liveRuns EXCEPT ![n] = "saving"]
    /\ UNCHANGED <<started, isDetailMode, indexVars>>
    /\ UNCHANGED notLiveVars

\* await IndexManager.saveIndex(...), then the list is updated
BackgroundAnalysis_save ==
    /\ \E n \in DOMAIN liveRuns :
          /\ liveRuns[n] = "saving"
          /\ liveRuns' = without(liveRuns, n)
    /\ \E launch \in {analysisLaunch(fsEntries, analyzeEndpoints(fsEntries))} :
          /\ indexDb' = launch.db
          /\ tuiEndpoints' = launch.endpoints
          /\ analysed' = launch.endpoints
    /\ tuiInfo' = "analysis"
    /\ fsAtSave' = fsEntries
    /\ UNCHANGED <<started, isDetailMode, fsEntries, endpointList, loadedList>>
    /\ UNCHANGED notLiveVars

(***************************************************************************)
(* A failing status update in the task queue                               *)
(***************************************************************************)
NoFault == [path |-> 0, threw |-> FALSE]

FaultIdle == qFault = NoFault

\* the variables of the parts before this one
oldVars ==
    <<pathVars, scanVars, runVars, indexVars, saveVars, hashVars, forced, cacheReadFailed,
      liveVars>>

\* updateTaskStatus(task.id, 'processing') rejects (the row cannot be written).
\* AsyncAnalyzer: the call is inside the try, the catch calls updateTaskStatus
\* again, which rejects too, and the callback rejects under Promise.allSettled;
\* the row stays pending. OptimizedAnalyzer.processTaskQueue: the call is
\* before the try, the callback rejects, Promise.all rejects and the run throws
Task_statusUpdateFails ==
    /\ qPc = "batch"
    /\ qFault = NoFault
    /\ \E k \in DOMAIN qTaskPc :
          /\ qTaskPc[k] = "picked"
          /\ qTaskPc' = [qTaskPc EXCEPT ![k] = "rejected"]
          /\ qFault' = [path |-> qTasks[k].path, threw |-> qAnalyzer = "OptimizedAnalyzer"]
    /\ UNCHANGED <<qAnalyzer, qFiles, qLimit, qEarlier, qPc, qTasks, qRows, qResult, qPicks>>
    /\ UNCHANGED <<oldVars, notFaultVars>>

\* the row still cannot be written when AsyncAnalyzer.processTasksAsync fetches
\* the task again: updateTaskStatus(task.id, 'processing') and the one of the
\* catch reject as before, and the row stays pending
Task_statusUpdateFailsAgain ==
    /\ qPc = "batch"
    /\ qAnalyzer = "AsyncAnalyzer"
    /\ qFault # NoFault
    /\ \E k \in DOMAIN qTaskPc :
          /\ qTaskPc[k] = "picked"
          /\ qTasks[k].path = qFault.path
          /\ qTaskPc' = [qTaskPc EXCEPT ![k] = "rejected"]
    /\ UNCHANGED <<qAnalyzer, qFiles, qLimit, qEarlier, qPc, qTasks, qRows, qResult, qPicks>>
    /\ UNCHANGED <<qFault, oldVars, notFaultVars>>

(***************************************************************************)
(* The batched and the queued mode over the same files                     *)
(***************************************************************************)
\* a controller with a class-level mapping
MappedControllerSource ==
    <<CtrlLine("RestController"), ReqMapLine(pathP), ClassLine("C", TRUE),
      MapLine("GET", pathM), MethodLine("f", TRUE)>>

CompareFileKinds ==
    FileKinds \cup {JavaFile(MappedControllerSource, TRUE, TRUE, j) : j \in {"json", "exit"}}

CompareFileLists == SeqsUpTo(CompareFileKinds, MaxFiles)

NotRun == [done |-> FALSE, raised |-> FALSE, endpoints |-> <<>>, controllerCount |-> 0]

HasRun(eps) ==
    [done |-> TRUE, raised |-> FALSE, endpoints |-> eps,
     controllerCount |-> distinctClassNames(eps)]

HasRaised == [done |-> TRUE, raised |-> TRUE, endpoints |-> <<>>, controllerCount |-> 0]

CompareIdle ==
    /\ cmpFiles = <<>>
    /\ cmpOptimized = NotRun
    /\ cmpAsync = NotRun
    /\ cmpSimple = NotRun

CompareInit ==
    /\ cmpFiles \in CompareFileLists
    /\ cmpOptimized = NotRun
    /\ cmpAsync = NotRun
    /\ cmpSimple = NotRun

\* OptimizedAnalyzer.analyzeEndpoints over the scanned files with a new
\* analyzer (empty resultsCache)
optimizedRun(files) == analyzeBatch(files, [k \in 1..Len(files) |-> NotCached], 0)

\* AsyncAnalyzer.analyzeEndpointsAsync over the scanned files: the values of
\* the task callbacks in task order
asyncRun(files) ==
    Flatten([k \in 1..Len(files) |-> inFile(processTask(files[k]).endpoints, k)])

\* analyzeEndpoints(projectPath, moduleInfo, {}): the optimized analyzer
AnalyzeEndpoints_optimized ==
    /\ ~cmpOptimized.done
    /\ \E eps \in {optimizedRun(cmpFiles)} : cmpOptimized' = HasRun(eps)
    /\ UNCHANGED <<cmpFiles, cmpAsync, cmpSimple>>
    /\ UNCHANGED <<oldVars, notCompareVars>>

\* analyzeEndpoints(projectPath, moduleInfo, {useAsync: true})
AnalyzeEndpoints_async ==
    /\ ~cmpAsync.done
    /\ \E eps \in {asyncRun(cmpFiles)} : cmpAsync' = HasRun(eps)
    /\ UNCHANGED <<cmpFiles, cmpOptimized, cmpSimple>>
    /\ UNCHANGED <<oldVars, notCompareVars>>

\* SimpleUI.scanProject: throws when the scan finds no .java file; else
\* Analyzer.analyzeEndpoints(projectPath, {useAsync}), where the options
\* object stands in the moduleInfo position and the default analyzer runs,
\* and the controllers are counted from the class names
SimpleUI_scanProject ==
    /\ ~cmpSimple.done
    /\ IF cmpFiles = <<>>
       THEN cmpSimple' = HasRaised
       ELSE \E eps \in {optimizedRun(cmpFiles)} : cmpSimple' = HasRun(eps)
    /\ UNCHANGED <<cmpFiles, cmpOptimized, cmpAsync>>
    /\ UNCHANGED <<oldVars, notCompareVars>>

(***************************************************************************)
(* A parser subprocess that never exits                                    *)
(***************************************************************************)
\* the dispatchers that start java -jar JavaParserWrapper.jar: execSync with
\* { timeout: 30000 }, spawn, and execSync without a timeout
HangDispatchers == {"AsyncAnalyzer", "OptimizedAnalyzer", "analyzeJavaFile"}

\* the dispatchers whose call gives up after the timeout
hasTimeout(d) == d = "AsyncAnalyzer"

\* whether the subprocess hangs on each of the files of the run
HangFileLists == SeqsUpTo(BOOLEAN, MaxHangFiles)

HangIdle ==
    /\ hangDispatcher = "none"
    /\ hangFiles = <<>>
    /\ hangAt = 1
    /\ hangPc = "returned"
    /\ hangClock = 0
    /\ hangUsed = <<>>

HangInit ==
    /\ hangDispatcher \in HangDispatchers
    /\ hangFiles \in HangFileLists
    /\ hangAt = 1
    /\ hangPc = "spawn"
    /\ hangClock = 0
    /\ hangUsed = [k \in DOMAIN hangFiles |-> "todo"]

\* the loop ends after the last file: the run returns
Hang_return ==
    /\ hangPc = "spawn" /\ hangAt > Len(hangFiles)
    /\ hangPc' = "returned"
    /\ UNCHANGED <<hangDispatcher, hangFiles, hangAt, hangClock, hangUsed>>
    /\ UNCHANGED <<oldVars, notHangVars>>

\* execSync(command, ...) / spawn('java', args, ...) for the next file
Subprocess_spawn ==
    /\ hangPc = "spawn" /\ hangAt <= Len(hangFiles)
    /\ hangPc' = "waiting"
    /\ hangClock' = 0
    /\ UNCHANGED <<hangDispatcher, hangFiles, hangAt, hangUsed>>
    /\ UNCHANGED <<oldVars, notHangVars>>

\* the subprocess exits and its output is taken
Subprocess_close ==
    /\ hangPc = "waiting" /\ ~hangFiles[hangAt]
    /\ hangUsed' = [hangUsed EXCEPT ![hangAt] = "ast"]
    /\ hangAt' = hangAt + 1
    /\ hangPc' = "spawn"
    /\ UNCHANGED <<hangDispatcher, hangFiles, hangClock>>
    /\ UNCHANGED <<oldVars, notHangVars>>

\* time passes while the subprocess has not exited
Subprocess_wait ==
    /\ hangPc = "waiting" /\ hangFiles[hangAt]
    /\ hangClock < MaxWait
    /\ hangClock' = hangClock + 1
    /\ UNCHANGED <<hangDispatcher, hangFiles, hangAt, hangPc, hangUsed>>
    /\ UNCHANGED <<oldVars, notHangVars>>

\* execSync's timeout expires (MaxWait ticks): the child is killed, execSync
\* throws, analyzeJavaFileAsync rejects and analyzeSingleFile catches
ExecSync_timeout ==
    /\ hangPc = "waiting" /\ hasTimeout(hangDispatcher)
    /\ hangClock = MaxWait
    /\ hangPc' = "regex"
    /\ UNCHANGED <<hangDispatcher, hangFiles, hangAt, hangClock, hangUsed>>
    /\ UNCHANGED <<oldVars, notHangVars>>

\* the regex fallback of the file, then the next file
Hang_fallback ==
    /\ hangPc = "regex"
    /\ hangUsed' = [hangUsed EXCEPT ![hangAt] = "regex"]
    /\ hangAt' = hangAt + 1
    /\ hangPc' = "spawn"
    /\ UNCHANGED <<hangDispatcher, hangFiles, hangClock>>
    /\ UNCHANGED <<oldVars, notHangVars>>

(***************************************************************************)
(* Start-up of the simple UI and of the native UI                          *)
(***************************************************************************)
NoLaunch == [ui |-> "none", info |-> "none", endpoints |-> <<>>]

Launch(ui, info, eps) == [ui |-> ui, info |-> info, endpoints |-> eps]

LaunchIdle == uiLaunch = NoLaunch

\* the variables of the earlier parts but those of the index
aroundIndexVars ==
    <<pathVars, scanVars, runVars, saveVars, hashVars, forced, cacheReadFailed, liveVars>>

\* SimpleUI.run when there is an index: it is loaded as it is
SimpleUI_run_index ==
    /\ indexDb.exists
    /\ uiLaunch' = Launch("SimpleUI", "cache", loadFromCache(indexDb))
    /\ UNCHANGED indexVars
    /\ UNCHANGED <<aroundIndexVars, notLaunchVars>>

\* SimpleUI.run when there is no index: scanProject scans, analyses, saves
\* the index and returns the list, or throws when there is no .java file
SimpleUI_run_scan ==
    /\ ~indexDb.exists
    /\ IF scanJavaFiles(fsEntries) = <<>>
       THEN /\ uiLaunch' = Launch("SimpleUI", "error", <<>>)
            /\ UNCHANGED <<indexDb, fsAtSave>>
       ELSE \E r \in {analyzeEndpoints(fsEntries)} :
            LET stats == [totalEndpoints |-> Len(r.endpoints),
                          methodCounts |-> calculateMethodCounts(r.endpoints),
                          totalJavaFiles |-> Len(scanJavaFiles(fsEntries)),
                          controllerFiles |-> distinctClassNames(r.endpoints)]
            IN  /\ indexDb' = saveIndex(fsEntries, r.endpoints, stats)
                /\ fsAtSave' = fsEntries
                /\ uiLaunch' = Launch("SimpleUI", "analysis", r.endpoints)
    /\ UNCHANGED <<fsEntries, tuiEndpoints, tuiInfo, analysed, endpointList, loadedList>>
    /\ UNCHANGED <<aroundIndexVars, notLaunchVars>>

\* NativeUI.scanProject on a Spring project: the index is used when its
\* metadata can be read and isIndexValid holds; otherwise the scan result is
\* destructured as { javaFiles, controllerFiles }, controllerFiles is
\* undefined and reading its length throws
NativeUI_scanProject ==
    /\ LET metadata == loadIndexMetadata(indexDb)
       IN  IF indexDb.exists /\ ~metadata.isNull
              /\ isIndexValid(fsEntries, projectPath, metadata)
           THEN uiLaunch' = Launch("NativeUI", "cache", loadIndex(indexDb).endpoints)
           ELSE uiLaunch' = Launch("NativeUI", "error", <<>>)
    /\ UNCHANGED indexVars
    /\ UNCHANGED <<aroundIndexVars, notLaunchVars>>

(***************************************************************************)
(* Specifications                                                          *)
(***************************************************************************)
(***************************************************************************)
(* The module label of an endpoint: getModuleForFile in each analysis mode *)
(***************************************************************************)
\* paths are strings, as startsWith sees them: sequences of characters
moduleRoot == <<"/", "r">>

Module(name, path) == [name |-> name, path |-> path]

\* the modules a parent build file can declare under the root: "a", the
\* nested "a/b", and "c"
ModuleA == Module("a", moduleRoot \o <<"/", "a">>)
ModuleAB == Module("a/b", moduleRoot \o <<"/", "a", "/", "b">>)
ModuleC == Module("c", moduleRoot \o <<"/", "c">>)
DeclaredModules == {ModuleA, ModuleAB, ModuleC}

\* ModuleDetector.detectModules: the declared modules of a multi-module
\* project in the order of the build file, or the root as the only module
ModuleInfo(multi, modules) ==
    [given |-> TRUE, isMultiModule |-> multi, modules |-> modules,
     rootModule |-> moduleRoot]

\* no moduleInfo at all: the parameter left at null
NoModuleInfo ==
    [given |-> FALSE, isMultiModule |-> FALSE, modules |-> <<>>,
     rootModule |-> <<>>]

SingleModuleInfo == ModuleInfo(FALSE, <<Module("r", moduleRoot)>>)

MultiModuleInfos ==
    {ModuleInfo(TRUE, ms) :
        ms \in {s \in SeqsUpTo(DeclaredModules, MaxModules) :
                   /\ s # <<>>
                   /\ \A m, n \in DOMAIN s : m # n => s[m] # s[n]}}

\* analyzeEndpoints(javaFiles) leaves moduleInfo at its default, null
ModuleInfos == {NoModuleInfo, SingleModuleInfo} \cup MultiModuleInfos

\* the .java files of the tree, one in each directory
ModuleFilePaths ==
    {dir \o <<"/", "F">> :
        dir \in {moduleRoot} \cup {m.path : m \in DeclaredModules}}

\* [...modules].sort((a, b) => b.path.length - a.path.length), a stable
\* sort: insertion of each module behind those at least as long
RECURSIVE insertByPathLength(_, _)
insertByPathLength(m, sorted) ==
    IF sorted = <<>> THEN <<m>>
    ELSE IF Len(Head(sorted).path) >= Len(m.path)
         THEN <<Head(sorted)>> \o insertByPathLength(m, Tail(sorted))
         ELSE <<m>> \o sorted

RECURSIVE sortByPathLength(_)
sortByPathLength(modules) ==
    IF modules = <<>> THEN <<>>
    ELSE insertByPathLength(modules[Len(modules)],
                            sortByPathLength(SubSeq(modules, 1, Len(modules) - 1)))

\* the loop over the sorted modules: the first whose path the file starts with
RECURSIVE firstModuleOf(_, _)
firstModuleOf(filePath, modules) ==
    IF modules = <<>> THEN NULL
    ELSE IF startsWith(filePath, Head(modules).path) THEN Head(modules).name
    ELSE firstModuleOf(filePath, Tail(modules))

\* getModuleForFile of the sequential analyzers and of AsyncAnalyzer
getModuleForFile_modules(filePath, info) ==
    IF ~info.given THEN NULL
    ELSE IF ~info.isMultiModule /\ Len(info.modules) > 0
         THEN info.modules[1].name
    ELSE firstModuleOf(filePath, sortByPathLength(info.modules))

\* Array.prototype.toString over module objects
arrayToString(modules) ==
    IF modules = <<>> THEN <<>>
    ELSE <<"[object Object]">> \o
         Flatten([n \in 1..(Len(modules) - 1) |-> <<",", "[object Object]">>])

\* Object.entries(moduleInfo), each value as startsWith coerces it to a string
Object_entries(info) ==
    <<[key |-> "isMultiModule",
       value |-> IF info.isMultiModule THEN <<"true">> ELSE <<"false">>],
      [key |-> "modules",    value |-> arrayToString(info.modules)],
      [key |-> "rootModule", value |-> info.rootModule]>>

AnalysisModes == {"sequential", "async", "optimized"}

NotLabelled == "<not labelled>"

ModuleIdle ==
    /\ modInfo = NoModuleInfo
    /\ modFile = <<>>
    /\ modLabels = [m \in AnalysisModes |-> NotLabelled]

ModuleInit ==
    /\ modInfo \in ModuleInfos
    /\ modFile \in ModuleFilePaths
    /\ modLabels = [m \in AnalysisModes |-> NotLabelled]

\* analyzeEndpoints(javaFiles, moduleInfo): moduleName of the file's endpoints
Label_sequential ==
    /\ modFile # <<>> /\ modLabels["sequential"] = NotLabelled
    /\ modLabels' = [modLabels EXCEPT
                        !["sequential"] = getModuleForFile_modules(modFile, modInfo)]
    /\ UNCHANGED <<modInfo, modFile>>
    /\ UNCHANGED <<oldVars, notModuleVars>>

\* AsyncAnalyzer.analyzeFiles: the same function, copied into the class
Label_async ==
    /\ modFile # <<>> /\ modLabels["async"] = NotLabelled
    /\ modLabels' = [modLabels EXCEPT
                        !["async"] = getModuleForFile_modules(modFile, modInfo)]
    /\ UNCHANGED <<modInfo, modFile>>
    /\ UNCHANGED <<oldVars, notModuleVars>>

\* OptimizedAnalyzer.analyzeBatch: the loop over Object.entries(moduleInfo)
Label_optimized ==
    /\ modFile # <<>> /\ modLabels["optimized"] = NotLabelled
    /\ modLabels' = [modLabels EXCEPT
                        !["optimized"] =
                            IF ~modInfo.given THEN ""
                            ELSE getModuleForFile(modFile, Object_entries(modInfo))]
    /\ UNCHANGED <<modInfo, modFile>>
    /\ UNCHANGED <<oldVars, notModuleVars>>

(***************************************************************************)
(* TUI.performBackgroundAnalysis while the project changes on disk         *)
(***************************************************************************)
NoAnalysis == [awaiting |-> FALSE, totalJavaFiles |-> 0, endpoints |-> <<>>,
               controllerCount |-> 0]

BackgroundIdle == bgAnalysis = NoAnalysis

\* performBackgroundAnalysis up to the end of await Analyzer.analyzeEndpoints:
\* the scanned files are counted and the endpoints held in the function's
\* locals (without a .java file it shows the notice and returns)
PerformBackgroundAnalysis_analyse ==
    /\ ~bgAnalysis.awaiting
    /\ scanJavaFiles(fsEntries) # <<>>
    /\ \E r \in {analyzeEndpoints(fsEntries)} :
          bgAnalysis' = [awaiting |-> TRUE,
                         totalJavaFiles |-> Len(scanJavaFiles(fsEntries)),
                         endpoints |-> r.endpoints,
                         controllerCount |-> r.controllerCount]
    /\ tuiInfo' = "analysing"
    /\ UNCHANGED <<fsEntries, indexDb, fsAtSave, tuiEndpoints, analysed, endpointList,
                   loadedList>>
    /\ UNCHANGED <<aroundIndexVars, notBackgroundVars>>

\* the rest of it: await IndexManager.saveIndex(projectPath, endpoints, stats),
\* which computes the project hash from the files as they are now, then the
\* list is shown
PerformBackgroundAnalysis_save ==
    /\ bgAnalysis.awaiting
    /\ indexDb' = saveIndex(fsEntries, bgAnalysis.endpoints,
                            [totalEndpoints |-> Len(bgAnalysis.endpoints),
                             methodCounts |-> calculateMethodCounts(bgAnalysis.endpoints),
                             totalJavaFiles |-> bgAnalysis.totalJavaFiles,
                             controllerFiles |-> bgAnalysis.controllerCount])
    /\ fsAtSave' = fsEntries
    /\ tuiEndpoints' = bgAnalysis.endpoints
    /\ analysed' = bgAnalysis.endpoints
    /\ tuiInfo' = "analysis"
    /\ bgAnalysis' = NoAnalysis
    /\ UNCHANGED <<fsEntries, endpointList, loadedList>>
    /\ UNCHANGED <<aroundIndexVars, notBackgroundVars>>

(***************************************************************************)
(* parseParameters: the names of the parameters of a method declaration    *)
(***************************************************************************)
\* A parameter string is a sequence of tokens: a run of word characters
\* ([a-zA-Z0-9_$]+) is one token, every other character is a token of its own
Space == " "
Quote == "\""
Punctuation == {Space, Quote, ",", "<", ">", "(", ")", "[", "]", "@", "="}

\* the token is a run of \w characters
isWord(c) == c \notin Punctuation

\* a parameter as written, and the name it declares
Param(text, name) == [text |-> text, name |-> name]

ParamShapes ==
    {Param(<<"String", Space, "s">>, "s"),
     Param(<<"Map", "<", "String", ",", Space, "Object", ">", Space, "body">>, "body"),
     Param(<<"@", "RequestParam", "(", "value", Space, "=", Space, Quote, "a", Quote, ",",
             Space, "defaultValue", Space, "=", Space, Quote, Quote, ")", Space,
             "String", Space, "x">>, "x"),
     Param(<<"String", "[", "]", Space, "ids">>, "ids"),
     Param(<<"@", "RequestBody", Space, "User", Space, "user">>, "user"),
     Param(<<"@", "RequestParam", "(", "defaultValue", Space, "=", Space, Quote, ")", Quote,
             ")", Space, "int", Space, "q">>, "q")}

ParameterLists == SeqsUpTo(ParamShapes, MaxParams)

\* the parameter list as it stands between the parentheses of the method
RECURSIVE paramStrOf(_)
paramStrOf(params) ==
    IF params = <<>> THEN <<>>
    ELSE IF Len(params) = 1 THEN params[1].text
    ELSE params[1].text \o <<",", Space>> \o paramStrOf(Tail(params))

\* the first position from n on that holds c, or 0
firstFrom(ts, c, n) ==
    IF \E m \in n..Len(ts) : ts[m] = c
    THEN CHOOSE m \in n..Len(ts) : ts[m] = c /\ \A o \in n..(m - 1) : ts[o] # c
    ELSE 0

\* the first position from n on that holds no space, or 0
firstNonSpaceFrom(ts, n) ==
    IF \E m \in n..Len(ts) : ts[m] # Space
    THEN CHOOSE m \in n..Len(ts) : ts[m] # Space /\ \A o \in n..(m - 1) : ts[o] = Space
    ELSE 0

\* String.prototype.trim
trim(ts) ==
    IF firstNonSpaceFrom(ts, 1) = 0 THEN <<>>
    ELSE SubSeq(ts, firstNonSpaceFrom(ts, 1),
                CHOOSE m \in 1..Len(ts) : ts[m] # Space /\ \A o \in (m + 1)..Len(ts) : ts[o] = Space)

\* paramStr.split(','): n is the position read, current the part being read
RECURSIVE splitOnCommas(_, _, _)
splitOnCommas(ts, n, current) ==
    IF n > Len(ts) THEN <<current>>
    ELSE IF ts[n] = "," THEN <<current>> \o splitOnCommas(ts, n + 1, <<>>)
    ELSE splitOnCommas(ts, n + 1, Append(current, ts[n]))

\* trimmed.split(/\s+/): the runs of tokens between white space; [''] for ''
RECURSIVE splitOnSpaces(_, _, _)
splitOnSpaces(ts, n, current) ==
    IF n > Len(ts) THEN <<current>>
    ELSE IF ts[n] = Space
         THEN IF n > 1 /\ ts[n - 1] = Space THEN splitOnSpaces(ts, n + 1, current)
              ELSE <<current>> \o splitOnSpaces(ts, n + 1, <<>>)
    ELSE splitOnSpaces(ts, n + 1, Append(current, ts[n]))

\* words[words.length - 1]
lastWord(ts) == splitOnSpaces(ts, 1, <<>>)[Len(splitOnSpaces(ts, 1, <<>>))]

\* src/src/analyzer.js parseParameters: the loop over paramStr.split(',')
RECURSIVE Analyzer_paramNames(_)
Analyzer_paramNames(parts) ==
    IF parts = <<>> THEN <<>>
    ELSE IF trim(Head(parts)) = <<>> THEN Analyzer_paramNames(Tail(parts))
    ELSE <<lastWord(trim(Head(parts)))>> \o Analyzer_paramNames(Tail(parts))

\* src/src/analyzer.js parseParameters
Analyzer_parseParameters(paramStr) ==
    IF trim(paramStr) = <<>> THEN <<>>
    ELSE Analyzer_paramNames(splitOnCommas(paramStr, 1, <<>>))

\* the depth after reading the character c
depthAfter(depth, c, open, close) ==
    IF c = open THEN depth + 1 ELSE IF c = close THEN depth - 1 ELSE depth

\* the character loop of the module-aware parseParameters: a comma splits
\* only when angleDepth and parenDepth are both 0
RECURSIVE splitParts(_, _, _, _, _, _)
splitParts(ts, n, parts, current, angleDepth, parenDepth) ==
    IF n > Len(ts)
    THEN IF trim(current) # <<>> THEN Append(parts, trim(current)) ELSE parts
    ELSE IF /\ ts[n] = ","
            /\ depthAfter(angleDepth, ts[n], "<", ">") = 0
            /\ depthAfter(parenDepth, ts[n], "(", ")") = 0
         THEN splitParts(ts, n + 1, Append(parts, trim(current)), <<>>,
                         depthAfter(angleDepth, ts[n], "<", ">"),
                         depthAfter(parenDepth, ts[n], "(", ")"))
         ELSE splitParts(ts, n + 1, parts, Append(current, ts[n]),
                         depthAfter(angleDepth, ts[n], "<", ">"),
                         depthAfter(parenDepth, ts[n], "(", ")"))

\* paramName.replace(/@\w+(?:\([^)]*\))?/g, '')
RECURSIVE removeAnnotations(_, _)
removeAnnotations(ts, n) ==
    IF n > Len(ts) THEN <<>>
    ELSE IF ts[n] = "@" /\ n < Len(ts) /\ isWord(ts[n + 1])
         THEN IF n + 2 <= Len(ts) /\ ts[n + 2] = "(" /\ firstFrom(ts, ")", n + 3) # 0
              THEN removeAnnotations(ts, firstFrom(ts, ")", n + 3) + 1)
              ELSE removeAnnotations(ts, n + 2)
    ELSE <<ts[n]>> \o removeAnnotations(ts, n + 1)

\* paramName.replace(/<[^>]*>/g, '')
RECURSIVE removeGenerics(_, _)
removeGenerics(ts, n) ==
    IF n > Len(ts) THEN <<>>
    ELSE IF ts[n] = "<" /\ firstFrom(ts, ">", n + 1) # 0
         THEN removeGenerics(ts, firstFrom(ts, ">", n + 1) + 1)
    ELSE <<ts[n]>> \o removeGenerics(ts, n + 1)

\* paramName.replace(/\[\s*\]/g, '')
RECURSIVE removeArrayMarkers(_, _)
removeArrayMarkers(ts, n) ==
    IF n > Len(ts) THEN <<>>
    ELSE IF /\ ts[n] = "["
            /\ firstNonSpaceFrom(ts, n + 1) # 0
            /\ ts[firstNonSpaceFrom(ts, n + 1)] = "]"
         THEN removeArrayMarkers(ts, firstNonSpaceFrom(ts, n + 1) + 1)
    ELSE <<ts[n]>> \o removeArrayMarkers(ts, n + 1)

\* /^[a-zA-Z_$][a-zA-Z0-9_$]*$/.test(lastWord)
isIdentifier(word) == Len(word) = 1 /\ isWord(word[1])

\* the three replacements, then the last word of what is left
strippedLastWord(part) ==
    lastWord(trim(removeArrayMarkers(removeGenerics(removeAnnotations(part, 1), 1), 1)))

\* the loop over parts of the module-aware parseParameters
RECURSIVE paramNames(_)
paramNames(parts) ==
    IF parts = <<>> THEN <<>>
    ELSE IF trim(Head(parts)) # <<>> /\ isIdentifier(strippedLastWord(trim(Head(parts))))
         THEN <<strippedLastWord(trim(Head(parts)))>> \o paramNames(Tail(parts))
    ELSE paramNames(Tail(parts))

\* parseParameters of the module-aware regex analyzer
parseParameters(paramStr) ==
    IF trim(paramStr) = <<>> THEN <<>>
    ELSE paramNames(splitParts(paramStr, 1, <<>>, <<>>, 0, 0))

ParameterParsers == {"Analyzer.parseParameters", "parseParameters"}

NoParamCall == [parser |-> "none", params |-> <<>>, names |-> <<>>, done |-> FALSE]

ParamIdle == paramCall = NoParamCall

ParamInit ==
    paramCall \in {[parser |-> r, params |-> ps, names |-> <<>>, done |-> FALSE] :
                     r \in ParameterParsers, ps \in ParameterLists}

\* parameters = parseParameters(...)
ParseParameters ==
    /\ paramCall.parser \in ParameterParsers
    /\ ~paramCall.done
    /\ paramCall' = [paramCall EXCEPT
                       !.names = IF paramCall.parser = "Analyzer.parseParameters"
                                 THEN Analyzer_parseParameters(paramStrOf(paramCall.params))
                                 ELSE parseParameters(paramStrOf(paramCall.params)),
                       !.done = TRUE]
    /\ UNCHANGED <<oldVars, notParamVars>>

MoreIdle ==
    FaultIdle /\ CompareIdle /\ HangIdle /\ LaunchIdle /\ ModuleIdle /\ BackgroundIdle /\ ParamIdle

TailIdle == CacheReadIdle /\ QueueIdle /\ LiveIdle /\ MoreIdle

BeforeTailIdle == SaveIdle /\ HashIdle /\ ForceIdle

LaterIdle == BeforeTailIdle /\ TailIdle

\* the path routines applied to every pair of fragments
InitPath == PathInit /\ ScanIdle /\ RunIdle /\ IndexIdle /\ LaterIdle
NextPath == ComposePaths
SpecPath == InitPath /\ [][NextPath]_vars

\* every engine run on every small file
InitScan == PathIdle /\ ScanInitWith(SmallFiles) /\ RunIdle /\ IndexIdle /\ LaterIdle
NextScan == ScanNext
SpecScan == InitScan /\ [][NextScan]_vars

\* every engine run on the files whose lines may match two patterns
InitClassify == PathIdle /\ ScanInitWith(ClassifyFiles) /\ RunIdle /\ IndexIdle /\ LaterIdle
SpecClassify == InitClassify /\ [][NextScan]_vars

\* every engine run on a mapping line and the lines after it
InitLookahead == PathIdle /\ ScanInitWith(LookaheadFiles) /\ RunIdle /\ IndexIdle /\ LaterIdle
SpecLookahead == InitLookahead /\ [][NextScan]_vars

\* every engine run on the files of a mapped controller class and its body
InitClassBody == PathIdle /\ ScanInitWith(ClassBodyFiles) /\ RunIdle /\ IndexIdle /\ LaterIdle
SpecClassBody == InitClassBody /\ [][NextScan]_vars

\* every engine run on the files shaped like test/HelloController.java
InitHello == PathIdle /\ ScanInitWith(HelloFiles) /\ RunIdle /\ IndexIdle /\ LaterIdle
SpecHello == InitHello /\ [][NextScan]_vars

\* every engine run on the files of one handler under its mapping annotations
InitMappings == PathIdle /\ ScanInitWith(MappingFiles) /\ RunIdle /\ IndexIdle /\ LaterIdle
SpecMappings == InitMappings /\ [][NextScan]_vars

\* every dispatcher run over every list of files
InitRun == PathIdle /\ ScanIdle /\ RunInitWith(FileLists) /\ IndexIdle /\ LaterIdle
NextRun == RunNext
SpecRun == InitRun /\ [][NextRun]_vars

\* one OptimizedAnalyzer handed the same file list again and again
InitCacheReuse == InitRun /\ dispatcher = "OptimizedAnalyzer"
NextCacheReuse ==
    \/ ProcessBatch
    \/ AnalyzeBatch_return
    \/ AnalyzeBatch_again
SpecCacheReuse == InitCacheReuse /\ [][NextCacheReuse]_vars

\* the project changing on disk between launches of the TUI
InitIndex == PathIdle /\ ScanIdle /\ RunIdle /\ IndexInitWith(FsStates) /\ LaterIdle
NextIndex ==
    \/ CreateFile
    \/ LinkDangling
    \/ ModifyFile
    \/ RemoveFile
    \/ LoadEndpoints_fromCache
    \/ LoadEndpoints_analyse
SpecIndex == InitIndex /\ [][NextIndex]_vars

\* a background analysis of the TUI while files are created, modified and
\* removed by other programs
InitBackground == InitIndex
NextBackground ==
    \/ CreateFile
    \/ LinkDangling
    \/ ModifyFile
    \/ RemoveFile
    \/ PerformBackgroundAnalysis_analyse
    \/ PerformBackgroundAnalysis_save
SpecBackground == InitBackground /\ [][NextBackground]_vars

\* the fingerprint of every project over every pair of scan orders
InitHash == InitIndex
NextHash == GenerateProjectHash_twice
SpecHash == InitHash /\ [][NextHash]_vars

\* validity checks between launches while the project changes on disk
InitValidity == InitIndex
NextValidity ==
    \/ CreateFile
    \/ LinkDangling
    \/ ModifyFile
    \/ RemoveFile
    \/ LoadEndpoints_analyse
    \/ IsIndexValid_check
SpecValidity == InitValidity /\ [][NextValidity]_vars

\* launches and force rescans while the project changes on disk
InitForce == InitIndex
NextForce ==
    \/ CreateFile
    \/ LinkDangling
    \/ ModifyFile
    \/ RemoveFile
    \/ LoadEndpoints_fromCache
    \/ LoadEndpoints_analyse
    \/ ForceFlag_launch
    \/ Rescan_key
SpecForce == InitForce /\ [][NextForce]_vars

\* one run of a queued analyzer, its task callbacks interleaved
InitQueue ==
    /\ PathIdle /\ ScanIdle /\ RunIdle /\ IndexIdle
    /\ BeforeTailIdle /\ CacheReadIdle /\ QueueInit /\ LiveIdle /\ MoreIdle
NextQueue ==
    \/ Queue_noFiles
    \/ Queue_clearOldData
    \/ Queue_enqueueFiles
    \/ Queue_fetchBatch
    \/ Task_markProcessing
    \/ Task_finishAsync
    \/ Task_saveOptimized
    \/ Task_completeOptimized
    \/ Queue_batchSettled
    \/ Queue_return
SpecQueue == InitQueue /\ [][NextQueue]_vars

\* one run of a queued analyzer over more files than a batch holds
InitQueueLoad ==
    /\ PathIdle /\ ScanIdle /\ RunIdle /\ IndexIdle
    /\ BeforeTailIdle /\ CacheReadIdle /\ QueueLoadInit /\ LiveIdle /\ MoreIdle
SpecQueueLoad == InitQueueLoad /\ [][NextQueue]_vars

\* one run of a queued analyzer in which one status update may fail
InitQueueFaults == InitQueue
NextQueueFaults ==
    \/ Queue_noFiles
    \/ Queue_clearOldData
    \/ Queue_enqueueFiles
    \/ Queue_fetchBatch
    \/ Task_markProcessing
    \/ Task_finishAsync
    \/ Task_saveOptimized
    \/ Task_completeOptimized
    \/ Task_statusUpdateFails
    \/ Queue_batchSettled
    \/ Queue_return
SpecQueueFaults == InitQueueFaults /\ [][NextQueueFaults]_vars

\* one run of a queued analyzer over a fresh database in which a row may stay
\* unwritable; the event loop runs whatever callback or continuation can run
InitQueueDrain == InitQueue /\ qEarlier = <<>>
NextQueueDrain ==
    \/ Queue_noFiles
    \/ Queue_clearOldData
    \/ Queue_enqueueFiles
    \/ Queue_fetchBatch
    \/ Task_markProcessing
    \/ Task_finishAsync
    \/ Task_saveOptimized
    \/ Task_completeOptimized
    \/ Task_statusUpdateFails
    \/ Task_statusUpdateFailsAgain
    \/ Queue_batchSettled
    \/ Queue_return
SpecQueueDrain == InitQueueDrain /\ [][NextQueueDrain]_vars /\ WF_vars(NextQueueDrain)

\* each parseParameters applied to every parameter list
InitParams ==
    /\ PathIdle /\ ScanIdle /\ RunIdle /\ IndexIdle
    /\ BeforeTailIdle /\ CacheReadIdle /\ QueueIdle /\ LiveIdle
    /\ FaultIdle /\ CompareIdle /\ HangIdle /\ LaunchIdle /\ ModuleIdle /\ BackgroundIdle
    /\ ParamInit
NextParams == ParseParameters
SpecParams == InitParams /\ [][NextParams]_vars

\* both analysis modes run over one list of scanned files
InitCompare ==
    /\ PathIdle /\ ScanIdle /\ RunIdle /\ IndexIdle
    /\ BeforeTailIdle /\ CacheReadIdle /\ QueueIdle /\ LiveIdle
    /\ FaultIdle /\ CompareInit /\ HangIdle /\ LaunchIdle /\ ModuleIdle /\ BackgroundIdle /\ ParamIdle
NextCompare ==
    \/ AnalyzeEndpoints_optimized
    \/ AnalyzeEndpoints_async
    \/ SimpleUI_scanProject
SpecCompare == InitCompare /\ [][NextCompare]_vars

\* a run of each dispatcher over files on which the subprocess may hang; the
\* operating system and the event loop keep running whatever can run
InitHang ==
    /\ PathIdle /\ ScanIdle /\ RunIdle /\ IndexIdle
    /\ BeforeTailIdle /\ CacheReadIdle /\ QueueIdle /\ LiveIdle
    /\ FaultIdle /\ CompareIdle /\ HangInit /\ LaunchIdle /\ ModuleIdle /\ BackgroundIdle /\ ParamIdle
NextHang ==
    \/ Hang_return
    \/ Subprocess_spawn
    \/ Subprocess_close
    \/ Subprocess_wait
    \/ ExecSync_timeout
    \/ Hang_fallback
SpecHang == InitHang /\ [][NextHang]_vars /\ WF_vars(NextHang)

\* the project changing on disk between launches of the three UIs on an
\* index the simple UI has written
InitStartup == InitIndex
NextStartup ==
    \/ CreateFile
    \/ LinkDangling
    \/ ModifyFile
    \/ RemoveFile
    \/ LoadEndpoints_fromCache
    \/ SimpleUI_run_index
    \/ SimpleUI_run_scan
    \/ NativeUI_scanProject
SpecStartup == InitStartup /\ [][NextStartup]_vars

\* one file of a project labelled with its module by each analysis mode
InitModules ==
    /\ PathIdle /\ ScanIdle /\ RunIdle /\ IndexIdle
    /\ BeforeTailIdle /\ CacheReadIdle /\ QueueIdle /\ LiveIdle
    /\ FaultIdle /\ CompareIdle /\ HangIdle /\ LaunchIdle /\ ModuleInit /\ BackgroundIdle /\ ParamIdle
NextModules ==
    \/ Label_sequential
    \/ Label_async
    \/ Label_optimized
SpecModules == InitModules /\ [][NextModules]_vars

\* one TUI process: start-up, key presses and the background analyses
InitLive == InitIndex
NextLive ==
    \/ Tui_start
    \/ Key_r
    \/ Key_enter
    \/ Key_escape
    \/ BackgroundAnalysis_scan
    \/ BackgroundAnalysis_analyse
    \/ BackgroundAnalysis_save
SpecLive == InitLive /\ [][NextLive]_vars

\* the callers of saveIndex saving one list after another
InitSave == PathIdle /\ ScanIdle /\ RunIdle /\ IndexInitWith(SaveFsStates) /\ LaterIdle
NextSave ==
    \/ SaveIndex_open
    \/ SaveIndex_deleteMetadata
    \/ SaveIndex_deleteEndpoints
    \/ SaveIndex_insertMetadata
    \/ SaveIndex_insertEndpoint
    \/ SaveIndex_close
    \/ SaveIndex_statementFails
    \/ LoadEndpoints_cacheReadFails
SpecSave == InitSave /\ [][NextSave]_vars

\* a caller clearing the index, saving a list and loading it back
InitRoundTrip == InitIndex
NextRoundTrip ==
    \/ CallClearIndex
    \/ CallSaveIndex
    \/ CallLoadIndex
SpecRoundTrip == InitRoundTrip /\ [][NextRoundTrip]_vars

(***************************************************************************)
(* C2: every path-composition routine returns a non-empty path that starts *)
(* with '/', and exactly '/' when both fragments are empty.                *)
(***************************************************************************)
C2_PathStartsWithSlash ==
    pathPc = "done" =>
        \A r \in PathRoutines :
            /\ fullPaths[r] # <<>>
            /\ startsWithSlash(fullPaths[r])
            /\ (basePath = <<>> /\ methodPath = <<>> => fullPaths[r] = Slash)

(***************************************************************************)
(* C3: buildFullPath joins two non-empty fragments with exactly one '/':   *)
(* the four spellings of (api, x) all give /api/x, and slash-free          *)
(* fragment bodies never give a '//' in the result.                        *)
(***************************************************************************)
C3_SingleSlashJoin ==
    pathPc = "done" =>
        \A r \in BuildFullPathRoutines :
            /\ (basePath \in {api, slashApi} /\ methodPath \in {x, slashX}
                    => fullPaths[r] = apiX)
            /\ ((basePath # <<>> /\ methodPath # <<>>
                 /\ ~hasDoubleSlash(basePath) /\ ~hasDoubleSlash(methodPath))
                    => ~hasDoubleSlash(fullPaths[r]))

(***************************************************************************)
(* C1: controller gating.  A file with no @RestController / @Controller    *)
(* line yields no endpoint from any engine, whatever mapping annotations   *)
(* it contains.                                                            *)
(***************************************************************************)
hasControllerAnnotation(ls) == \E n \in 1..Len(ls) : ls[n].k = "ctrl"

C1_ControllerGating ==
    (engine = "done" /\ ~hasControllerAnnotation(lines)) =>
        \A e \in Engines : results[e].endpoints = <<>>

(***************************************************************************)
(* C4: on a file shaped like HelloController.java the regex engine emits   *)
(* one endpoint per mapping line, in source order, with the upper-case     *)
(* verb, the class path followed by the method path, the class name and    *)
(* the name of the method declared on the next line; the controller count  *)
(* of the single file is 1.                                                *)
(***************************************************************************)
\* (method, path, className, methodName) of an endpoint
signature(ep) == <<ep.method, ep.path, ep.className, ep.methodName>>

signatures(eps) == [n \in 1..Len(eps) |-> signature(eps[n])]

theClassLine(ls) == ls[MinOf({n \in 1..Len(ls) : ls[n].k = "class"})]
theRequestMapping(ls) == ls[MinOf({n \in 1..Len(ls) : ls[n].k = "reqmap"})]

RECURSIVE expectedSignatures(_, _)
expectedSignatures(ls, n) ==
    IF n > Len(ls) THEN <<>>
    ELSE (IF ls[n].k = "map"
          THEN <<<<ls[n].name, theRequestMapping(ls).arg \o ls[n].arg,
                   theClassLine(ls).name, ls[n + 1].name>>>>
          ELSE <<>>)
         \o expectedSignatures(ls, n + 1)

\* analyzeEndpoints of the regex analyzers counts the files flagged as
\* controllers; the optimized and async analyzers count distinct class names
controllerCount(e) ==
    IF e \in {"analyzer", "analyzer2"}
    THEN (IF results[e].isController THEN 1 ELSE 0)
    ELSE Cardinality({results[e].endpoints[n].className :
                        n \in 1..Len(results[e].endpoints)})

C4_HelloControllerRegex ==
    engine = "done" =>
        \A e \in RegexEngines :
            /\ signatures(results[e].endpoints) = expectedSignatures(lines, 1)
            /\ e # "fallback" => controllerCount(e) = 1

(***************************************************************************)
(* C5: on a file with a @RestController @RequestMapping("/p") class and    *)
(* methods annotated @<Verb>Mapping("/m"), the AST engine and each regex   *)
(* engine produce, for every such method, the endpoint (verb, /p/m, class, *)
(* method), and agree on the set of (method, path, className, methodName). *)
(***************************************************************************)
signatureSet(eps) == {signature(eps[n]) : n \in 1..Len(eps)}

expectedSignatureSet(ls) ==
    LET ex == expectedSignatures(ls, 1) IN {ex[n] : n \in 1..Len(ex)}

C5_EnginesAgree ==
    engine = "done" =>
        /\ \A e \in Engines : expectedSignatureSet(lines) \subseteq signatureSet(results[e].endpoints)
        /\ \A e \in RegexEngines :
              signatureSet(results[e].endpoints) = signatureSet(results["ast"].endpoints)

(***************************************************************************)
(* Claims about the dispatchers                                            *)
(***************************************************************************)
\* the dispatchers that try the AST engine first
AstDispatchers == {"analyzeJavaFile", "AsyncAnalyzer", "OptimizedAnalyzer"}

\* the dispatchers that loop over the files of a run themselves
RunDispatchers == {"analyzeEndpoints", "OptimizedAnalyzer", "AsyncAnalyzer"}

\* whether the file can be read when dispatcher d starts the subprocess on it
astCanRead(d, f) == IF d = "OptimizedAnalyzer" THEN f.stillReadable ELSE f.readable

\* the way the AST engine fails on file f under dispatcher d
astFailure(d, f) ==
    LET p == javaProcess(f, astCanRead(d, f)) IN
    IF p.code # 0 THEN (IF f.java = "json" THEN "parse error" ELSE "non-zero exit")
    ELSE IF p.stdout = "empty" THEN "empty output"
    ELSE IF p.stdout = "garbage" THEN "invalid JSON"
    ELSE "none"

\* what the regex engine of dispatcher d finds in file f
regexOf(d, f) ==
    CASE d = "analyzeEndpoints"  -> Analyzer2_run(InitialScanState, f.content, 1).endpoints
      [] d = "analyzeJavaFile"   ->
            Fallback_run(InitialScanState, f.content, 1, "buildFullPath").endpoints
      [] d = "AsyncAnalyzer"     ->
            Fallback_run(InitialScanState, f.content, 1,
                         "AsyncAnalyzer.buildFullPath").endpoints
      [] d = "OptimizedAnalyzer" -> parseEndpointsWithRegex(f.content)

\* the part of the run's result that comes from file k
contribution(k) == SelectSeq(allEndpoints, LAMBDA ep : ep.filePath = k)

\* C6: whenever the AST engine fails on a file in one of the four ways
\* (parse error, non-zero exit, empty output, output that is not JSON) and
\* the file is there to be read, the dispatcher uses the regex engine's
\* result for that file; a file on which the AST engine works keeps the AST
\* strategy; and nothing is raised to the caller unless the regex engine
\* cannot read the file either.
C6_PerFileFallback ==
    dispatcher \in AstDispatchers =>
        /\ \A k \in 1..Len(javaFiles) :
              strategy[k] # "todo" =>
                  LET f == javaFiles[k] IN
                  /\ (astFailure(dispatcher, f) # "none" /\ f.readable /\ f.stillReadable)
                        => /\ strategy[k] = "regex"
                           /\ contribution(k) = inFile(regexOf(dispatcher, f), k)
                  /\ astFailure(dispatcher, f) = "none" => strategy[k] = "ast"
        /\ runStatus = "raised" => ~javaFiles[position + 1].stillReadable

\* a file on which both engines fail, or which cannot be read
badFile(d, f) ==
    IF d = "analyzeEndpoints" THEN ~f.readable
    ELSE ~f.readable \/ (astFailure(d, f) # "none" /\ ~f.stillReadable)

\* the endpoints dispatcher d returns for file f when f is its only input
alone(d, f) ==
    CASE d = "analyzeEndpoints"  -> Analyzer2_analyzeJavaFile(f).endpoints
      [] d = "OptimizedAnalyzer" -> analyzeFilesWithJavaParser(f).endpoints
      [] d = "AsyncAnalyzer"     -> analyzeSingleFile(f).endpoints

\* C7: a run never raises because of one file, and when it has returned its
\* result is, in input order, the endpoints of every file that is not bad;
\* a bad file contributes nothing, wherever it stands in the list.
C7_BadFileSkipped ==
    dispatcher \in RunDispatchers =>
        /\ runStatus # "raised"
        /\ runStatus = "returned" =>
              allEndpoints =
                  Flatten([k \in 1..Len(javaFiles) |->
                             IF badFile(dispatcher, javaFiles[k]) THEN <<>>
                             ELSE inFile(alone(dispatcher, javaFiles[k]), k)])

\* a returned run of three files whose middle file fails in both engines
\* and whose first and last files both contributed endpoints
C7_Witness ==
    /\ dispatcher \in RunDispatchers
    /\ runStatus = "returned"
    /\ Len(javaFiles) = 3
    /\ badFile(dispatcher, javaFiles[2])
    /\ contribution(1) # <<>>
    /\ contribution(2) = <<>>
    /\ contribution(3) # <<>>

(***************************************************************************)
(* Claims about the index                                                  *)
(***************************************************************************)
\* C8: while no scanned file has been added, removed or modified since the
\* index was saved, the index is found valid (so the next launch does not
\* analyse again), and a launch served from the cache presents the very
\* list, field by field and in the same order, that the analysing launch
\* produced.
C8_IdempotentCacheHit ==
    (indexDb.exists /\ fsEntries = fsAtSave) =>
        /\ isIndexValid(fsEntries, projectPath, loadIndexMetadata(indexDb))
        /\ tuiInfo = "cache" => tuiEndpoints = analysed

\* C9: once the index is saved, a scanned file whose modification time
\* differs from the one it had at the save, or a .java entry that was not
\* there at the save, makes isIndexValid return false.
C9_CacheInvalidation ==
    indexDb.exists =>
        ((\E id \in FileIds :
             \/ /\ fsAtSave[id].present /\ fsEntries[id].present
                /\ fsEntries[id].mtime # fsAtSave[id].mtime
             \/ ~fsAtSave[id].present /\ fsEntries[id].present)
         => ~isIndexValid(fsEntries, projectPath, loadIndexMetadata(indexDb)))

\* C10: loadIndex right after saveIndex returns the saved list: every field
\* of every endpoint, parameters and moduleName included, in the same order.
C10_RoundTrip ==
    loadedList.done => (~loadedList.isNull /\ loadedList.endpoints = endpointList)

(***************************************************************************)
(* C11: at every point during and after a saveIndex call the rows a reader *)
(* finds in the index are either the complete previous snapshot or the     *)
(* complete new one.                                                       *)
(***************************************************************************)
snapshotRows(db) == <<db.metadata, db.endpoints>>

C11_AtomicReplace ==
    savePc # "idle" =>
        snapshotRows(indexDb) \in
            {snapshotRows(prevDb),
             snapshotRows(saveIndex(fsEntries, saveList, saveStats))}

(***************************************************************************)
(* C12: in the index a completed saveIndex leaves, total_endpoints is the  *)
(* number of endpoint rows and method_counts gives, for every method, the  *)
(* number of rows with that method, whoever the caller was.                *)
(***************************************************************************)
countOf(counts, method) ==
    IF \E n \in 1..Len(counts) : counts[n].method = method
    THEN (CHOOSE c \in {counts[n] : n \in 1..Len(counts)} : c.method = method).count
    ELSE 0

rowsWithMethod(db, method) ==
    Cardinality({n \in 1..Len(db.endpoints) : db.endpoints[n].method = method})

C12_StatisticsDescribeRows ==
    savePc = "resolved" =>
        LET statistics == loadIndexMetadata(indexDb).statistics
        IN  /\ statistics.totalEndpoints = Len(indexDb.endpoints)
            /\ \A method \in {"GET", "POST"} :
                  countOf(statistics.methodCounts, method) = rowsWithMethod(indexDb, method)

(***************************************************************************)
(* C13: the fingerprint of a project does not depend on the order in which *)
(* the scan returns its files.                                             *)
(***************************************************************************)
C13_HashOrderIndependent ==
    hashes # <<>> => hashes[1] = hashes[2]

(***************************************************************************)
(* C14: isIndexValid never raises, and returns false whenever the scan or  *)
(* a filesystem access failed while the fingerprint was recomputed.        *)
(***************************************************************************)
C14_ValidityNeverRaises ==
    validity.done =>
        /\ ~validity.raised
        /\ (validity.scanFailed \/ validity.statFailed) => ~validity.value

(***************************************************************************)
(* C15: a force rescan (-f or the 'r' key) never ends in a cache hit, and  *)
(* when its clearIndex returned and nothing was saved since, no snapshot   *)
(* is left.                                                                *)
(***************************************************************************)
C15_ForceRescanIsFresh ==
    forced.via # "none" =>
        /\ forced.info # "cache"
        /\ (~forced.threw /\ forced.info = "nofiles") => ~forced.snapshot

(***************************************************************************)
(* C16: a save in which a statement failed ends rejected, and a failed     *)
(* read of a valid index is not shown as a loaded cache.                   *)
(***************************************************************************)
C16_FailuresSurfaced ==
    /\ saveFailed => savePc = "rejected"
    /\ cacheReadFailed => tuiInfo # "cache"

(***************************************************************************)
(* C17: a task row moves only pending -> processing -> completed or        *)
(* failed, and when the drain has returned every enqueued task is          *)
(* completed or failed.                                                    *)
(***************************************************************************)
TaskSteps == {<<"pending", "processing">>, <<"processing", "completed">>, <<"processing", "failed">>}

drained == qPc = "returned" /\ qFiles # <<>>

C17_TaskLifecycle ==
    /\ [](drained => \A k \in DOMAIN qTasks : qTasks[k].status \in {"completed", "failed"})
    /\ [][qPc = "batch" =>
             \A k \in DOMAIN qTasks :
                qTasks'[k].status # qTasks[k].status =>
                    <<qTasks[k].status, qTasks'[k].status>> \in TaskSteps]_vars

(***************************************************************************)
(* C18: in a run every enqueued file path has exactly one task row, no     *)
(* task is handed to a callback twice, and the result of the run holds     *)
(* the endpoints of every file exactly once.                               *)
(***************************************************************************)
enqueued == qPc \in {"fetch", "batch", "returned"} /\ qFiles # <<>>

timesInResult(p) == Cardinality({n \in DOMAIN qResult : qResult[n].filePath = p})

C20_OneLiveRun == Len(liveRuns) <= 1

(***************************************************************************)
(* C21: a task that fails, in its analysis or in its status update, never  *)
(* makes the run throw, and the result of the run holds the endpoints of   *)
(* every other file.                                                       *)
(***************************************************************************)
C21_TaskIsolation ==
    /\ ~qFault.threw
    /\ (qPc = "returned" /\ qFiles # <<>>) =>
          \A p \in DOMAIN qFiles \ {qFault.path} :
             timesInResult(p) = Len(taskAnalysis(qAnalyzer, qFiles[p]).endpoints)

(***************************************************************************)
(* C22: over the same scanned files the batched and the queued mode        *)
(* return the same set of endpoints (method, path, className, methodName,  *)
(* filePath).                                                              *)
(***************************************************************************)
endpointSet(eps) ==
    {[method |-> eps[n].method, path |-> eps[n].path, className |-> eps[n].className,
      methodName |-> eps[n].methodName, filePath |-> eps[n].filePath] : n \in DOMAIN eps}

C22_ModesAgree ==
    (cmpOptimized.done /\ cmpAsync.done) =>
        endpointSet(cmpOptimized.endpoints) = endpointSet(cmpAsync.endpoints)

(***************************************************************************)
(* C23: in every mode the controllerCount a run returns is the number of   *)
(* distinct className values among the endpoints it returns.               *)
(***************************************************************************)
C23_ControllerCount ==
    runStatus = "returned" => controllerTally = distinctClassNames(allEndpoints)

(***************************************************************************)
(* C24: every endpoint an engine emits or returns, the AST engine's JSON   *)
(* included, has a method that is one of GET, POST, PUT, DELETE, PATCH     *)
(* (and so is not empty).                                                  *)
(***************************************************************************)
C24_MethodIsVerb ==
    /\ \A n \in DOMAIN endpoints : endpoints[n].method \in Verbs
    /\ \A e \in Engines :
          \A n \in DOMAIN results[e].endpoints : results[e].endpoints[n].method \in Verbs

\* the AST engine has returned endpoints for a handler that carries a verb
\* annotation and a @RequestMapping whose method attribute names HEAD
C24_Witness ==
    /\ results["ast"].status = "returned"
    /\ results["ast"].endpoints # <<>>
    /\ \E n \in DOMAIN lines : lines[n].k = "reqmeth" /\ lines[n].name = "HEAD"
    /\ \A e \in RegexEngines : results[e].status = "returned"

(***************************************************************************)
(* C25: a handler method that carries k supported mapping annotations      *)
(* (verb annotations, a method-level @RequestMapping) yields exactly k     *)
(* endpoints from the AST engine and from the module-aware regex engine,   *)
(* also when two of them map to the same verb.                             *)
(***************************************************************************)
supportedMapping(l) ==
    \/ l.k \in {"map", "reqmap"}
    \/ l.k = "reqmeth" /\ l.name \in Verbs \cup {""}

\* the supported mapping annotations between the class line and the handler
handlerMappings(ls) ==
    {n \in DOMAIN ls : /\ supportedMapping(ls[n])
                       /\ \E c \in 1..(n - 1) : ls[c].k = "class"}

C25_OnePerAnnotation ==
    engine = "done" =>
        \A e \in {"ast", "analyzer2"} :
            Len(results[e].endpoints) = Cardinality(handlerMappings(lines))

(***************************************************************************)
(* C26: when the scan finds no .java file, every mode returns              *)
(* {endpoints: [], controllerCount: 0} and none raises.                    *)
(***************************************************************************)
emptyResult(r) == ~r.raised /\ r.endpoints = <<>> /\ r.controllerCount = 0

C26_EmptyProject ==
    cmpFiles = <<>> =>
        /\ cmpOptimized.done => emptyResult(cmpOptimized)
        /\ cmpAsync.done => emptyResult(cmpAsync)
        /\ cmpSimple.done => emptyResult(cmpSimple)

(***************************************************************************)
(* C27: in every dispatcher that starts the parser subprocess, a run over  *)
(* files on which the subprocess never exits eventually returns, each such *)
(* file having been handed to the regex engine.                            *)
(***************************************************************************)
C27_HungSubprocessBounded ==
    <>(/\ hangPc = "returned"
       /\ \A k \in DOMAIN hangFiles : hangFiles[k] => hangUsed[k] = "regex")

(***************************************************************************)
(* C28: a start-up of the TUI, the native UI or the simple UI serves the   *)
(* endpoints of an existing index only when the fingerprint stored in it   *)
(* equals the current one: a launch that takes its list from the cache     *)
(* happens in a state where isIndexValid holds.                            *)
(***************************************************************************)
servesCache ==
    \/ uiLaunch' # uiLaunch /\ uiLaunch'.info = "cache"
    \/ <<tuiInfo, tuiEndpoints>>' # <<tuiInfo, tuiEndpoints>> /\ tuiInfo' = "cache"

fingerprintMatches ==
    LET metadata == loadIndexMetadata(indexDb)
    IN  ~metadata.isNull /\ isIndexValid(fsEntries, projectPath, metadata)

C28_FingerprintBeforeCache == [][servesCache => fingerprintMatches]_vars

(***************************************************************************)
(* C29: a class-level @RequestMapping or a verb mapping whose argument is  *)
(* an unquoted expression leaves that expression, wrapped in braces, as a  *)
(* fragment of an endpoint path in every regex engine; no engine drops it. *)
(***************************************************************************)
hasFragment(path, frag) ==
    \E n \in 0..(Len(path) - Len(frag)) :
        \A k \in 1..Len(frag) : path[n + k] = frag[k]

keepsExpression(e, l) ==
    \E n \in DOMAIN results[e].endpoints :
        hasFragment(results[e].endpoints[n].path, <<"{">> \o l.arg \o <<"}">>)

expressionMappings(ls) ==
    {n \in DOMAIN ls : ls[n].k \in {"reqmap", "map"} /\ ls[n].form = "expr"}

C29_ExpressionKept ==
    engine = "done" =>
        \A e \in RegexEngines : \A n \in expressionMappings(lines) :
            keepsExpression(e, lines[n])

(***************************************************************************)
(* C30: in every analysis mode the module label of a file is the name of   *)
(* the module whose path is the longest prefix of the file's path when the *)
(* project is multi-module, and null or empty when it is not.              *)
(***************************************************************************)
modulesOver(filePath, info) ==
    {n \in DOMAIN info.modules : startsWith(filePath, info.modules[n].path)}

longestPrefixModules(filePath, info) ==
    {info.modules[n].name : n \in
        {m \in modulesOver(filePath, info) :
            \A o \in modulesOver(filePath, info) :
                Len(info.modules[o].path) <= Len(info.modules[m].path)}}

expectedLabels(filePath, info) ==
    IF info.given /\ info.isMultiModule /\ modulesOver(filePath, info) # {}
    THEN longestPrefixModules(filePath, info)
    ELSE {NULL, ""}

C30_ModuleLabel ==
    \A m \in AnalysisModes :
        modLabels[m] # NotLabelled => modLabels[m] \in expectedLabels(modFile, modInfo)

(***************************************************************************)
(* C31: in the regex scan of one file isController is a one-way latch: it  *)
(* is false until the first @RestController or @Controller line has been   *)
(* scanned and true from then on, whatever lines follow.                   *)
(***************************************************************************)
controllerLineBefore(ls, n) ==
    \E c \in 1..(n - 1) : c <= Len(ls) /\ ls[c].k = "ctrl"

C31_ControllerLatch ==
    engine \in LineEngines => (isController <=> controllerLineBefore(lines, i))

\* the latch has been set and a class declaration scanned after it
C31_Witness ==
    /\ engine \in LineEngines
    /\ isController
    /\ \E c \in 1..(i - 1) : \E d \in (c + 1)..(i - 1) :
          lines[c].k = "ctrl" /\ lines[c].name = "Controller" /\ lines[d].k = "class"

(***************************************************************************)
(* C32: each line of the regex scan is classified by the first pattern it  *)
(* matches, in the order controller annotation, class declaration,         *)
(* class-level request mapping, verb mapping, and only that pattern's      *)
(* transition is applied: a controller line changes isController only, a   *)
(* class line currentClass only, a request-mapping line classBasePath      *)
(* only, a verb-mapping line the endpoint list only, any other line        *)
(* nothing.                                                                *)
(***************************************************************************)
\* the one part of the scan state the line may change
changedBy(l) ==
    CASE l.k \in {"ctrl", "ctrlreq"} -> "isController"
      [] l.k = "class"               -> "currentClass"
      [] l.k \in {"reqmap", "reqmeth"} -> "classBasePath"
      [] l.k = "map"                 -> "endpoints"
      [] OTHER                       -> "nothing"

scansLine == engine \in LineEngines /\ engine' = engine /\ i' = i + 1

C32_OneTransitionPerLine ==
    [][scansLine =>
        /\ changedBy(lines[i]) # "isController" => isController' = isController
        /\ changedBy(lines[i]) # "currentClass" => currentClass' = currentClass
        /\ changedBy(lines[i]) # "classBasePath" => classBasePath' = classBasePath
        /\ changedBy(lines[i]) # "endpoints" => endpoints' = endpoints]_vars

(***************************************************************************)
(* C33: for a verb mapping on line n the regex engine looks for the method *)
(* declaration on lines n+1 and n+2 only, never beyond the end of the      *)
(* file, and names the endpoint after the first of the two that is a       *)
(* method declaration.                                                     *)
(***************************************************************************)
\* the method declarations among the two lines after line n
declarationsAfter(ls, n) ==
    {d \in {n + 1, n + 2} : d <= Len(ls) /\ ls[d].k = "method"}

nameInWindow(ls, n) ==
    IF declarationsAfter(ls, n) = {} THEN ""
    ELSE ls[CHOOSE d \in declarationsAfter(ls, n) :
                \A o \in declarationsAfter(ls, n) : d <= o].name

namedFromWindow(e) ==
    \A n \in DOMAIN results[e].endpoints :
        results[e].endpoints[n].methodName =
            nameInWindow(lines, results[e].endpoints[n].lineNumber)

C33_LookaheadWindow ==
    engine = "done" => \A e \in LineEngines : namedFromWindow(e)

(***************************************************************************)
(* C34: analyzeJavaFileFallback and AsyncAnalyzer.parseWithRegex are       *)
(* strict: a verb mapping with no method declaration in its window yields  *)
(* no endpoint, so every endpoint they emit has a non-empty methodName.    *)
(***************************************************************************)
StrictEngines == {"fallback", "async"}

allNamed(eps) == \A n \in DOMAIN eps : eps[n].methodName # ""

C34_StrictFallback ==
    /\ engine \in StrictEngines => allNamed(endpoints)
    /\ \A e \in StrictEngines : allNamed(results[e].endpoints)

\* a mapping without a declaration in its window: the strict engines have
\* returned nothing for it, the lenient module-aware engine an unnamed endpoint
C34_Witness ==
    /\ engine = "done"
    /\ \E n \in DOMAIN lines : lines[n].k = "map" /\ declarationsAfter(lines, n) = {}
    /\ \A e \in StrictEngines : results[e].endpoints = <<>>
    /\ results["analyzer2"].endpoints # <<>>
    /\ ~allNamed(results["analyzer2"].endpoints)

(***************************************************************************)
(* C35: in the batched mode the result cache only saves work: what         *)
(* analyzeBatch returns for a file list is what it returns with an empty   *)
(* cache, whichever files of the list are cached already.                  *)
(***************************************************************************)
C35_CacheTransparent ==
    (dispatcher = "OptimizedAnalyzer" /\ runStatus = "returned") =>
        allEndpoints = optimizedRun(javaFiles)

(***************************************************************************)
(* C36: whenever isIndexValid holds for the stored index, the stored       *)
(* endpoints are those of the file contents the fingerprint describes,     *)
(* also when a file was modified between the analysis and the save.        *)
(***************************************************************************)
storedIsValid ==
    /\ indexDb.exists
    /\ ~loadIndexMetadata(indexDb).isNull
    /\ isIndexValid(fsEntries, projectPath, loadIndexMetadata(indexDb))

rowsOf(eps) == [n \in 1..Len(eps) |-> EndpointRow(eps[n])]

C36_ValidIndexIsCurrent ==
    storedIsValid => indexDb.endpoints = rowsOf(analyzeEndpoints(fsEntries).endpoints)

(***************************************************************************)
(* C37: the queue drain loop terminates for every finite queue: every      *)
(* iteration takes each task it fetched out of the pending state, and the  *)
(* loop ends (the drain returns, or the run throws), also when analysis or *)
(* a status update fails for a task.                                       *)
(***************************************************************************)
pendingCount == Cardinality({k \in DOMAIN qTasks : qTasks[k].status = "pending"})

drainEnded == qPc = "returned" \/ qFault.threw

C37_DrainTerminates == <>drainEnded

\* the safety half: a settled batch leaves none of its tasks pending
C37_BatchLeavesPending ==
    [][(qPc = "batch" /\ qPc' = "fetch") =>
          \A k \in DOMAIN qTaskPc : qTasks'[k].status # "pending"]_vars

(***************************************************************************)
(* C38: in the regex scan all endpoints of one class get the same base     *)
(* path: classBasePath changes only at the class-level @RequestMapping     *)
(* line that precedes the class declaration, so in a file whose class is   *)
(* mapped to /p every endpoint path starts with /p, whatever method-level  *)
(* @RequestMapping lines or later class declarations the body holds.       *)
(***************************************************************************)
classDeclaredBefore(ls, n) == \E c \in 1..(n - 1) : ls[c].k = "class"

underBase(e, base) == Len(e.path) >= Len(base) /\ SubSeq(e.path, 1, Len(base)) = base

C38_OneBasePathPerClass ==
    /\ [](engine \in LineEngines =>
            \A n \in DOMAIN endpoints : underBase(endpoints[n], pathP))
    /\ [][(scansLine /\ classBasePath' # classBasePath) =>
             (lines[i].k \in {"reqmap", "ctrlreq"} /\ ~classDeclaredBefore(lines, i))]_vars

(***************************************************************************)
(* C39: parseParameters returns, in order, exactly one name per top-level  *)
(* parameter of the list: the name each parameter declares, whatever       *)
(* annotations, generic arguments or array markers the parameter carries.  *)
(***************************************************************************)
declaredNames(params) == [n \in 1..Len(params) |-> <<params[n].name>>]

C39_OneNamePerParameter == paramCall.done => paramCall.names = declaredNames(paramCall.params)

(***************************************************************************)
(* C40: the number of tasks the queued mode processes concurrently is      *)
(* bounded: for every host CPU count the worker count and the batch size   *)
(* of an iteration lie in 2..8, and at no moment of the drain are more     *)
(* than 8 tasks in the 'processing' status.                                *)
(***************************************************************************)
ConcurrencyRange == 2..8

inProcessing == {k \in DOMAIN qTasks : qTasks[k].status = "processing"}

\* the tasks of the running batch that are in 'processing'
batchInProcessing == {k \in DOMAIN qTaskPc : qTasks[k].status = "processing"}

workersInRange ==
    \A c \in HostCpuCounts :
        /\ AsyncAnalyzer_maxWorkers(c) \in ConcurrencyRange
        /\ AsyncAnalyzer_concurrency(AsyncAnalyzer_maxWorkers(c)) \in ConcurrencyRange

C40_BoundedConcurrency ==
    /\ workersInRange
    /\ qAnalyzer = "AsyncAnalyzer" => qLimit \in ConcurrencyRange
    /\ Cardinality(inProcessing) <= 8

\* the part that holds: a batch never has more tasks in flight than the limit
C40_BatchWithinLimit ==
    /\ workersInRange
    /\ qAnalyzer = "AsyncAnalyzer" => qLimit \in ConcurrencyRange
    /\ Cardinality(DOMAIN qTaskPc) <= qLimit
    /\ Cardinality(batchInProcessing) <= 8
====
